---- MODULE Spec2Model ----
(***************************************************************************)
(* DigitalSizing: landmark estimation from a detected face box, scale      *)
(* calibration, measurement derivation and size matching.                  *)
(*                                                                         *)
(* Numbers.  The program computes in Python floats.  The model computes in *)
(* exact integer arithmetic:                                               *)
(*   - pixel coordinates and pixel distances are integers in milli-pixels  *)
(*     (PX units per pixel); every coordinate detect_landmarks derives     *)
(*     from an integer face box is a whole number of milli-pixels;         *)
(*   - a Euclidean distance is the true distance rounded down to a whole   *)
(*     milli-pixel (exact for axis-aligned pairs);                         *)
(*   - ratios (scale factors, centimetre values before rounding, fit       *)
(*     scores, confidences) are exact rationals;                           *)
(*   - returned measurements, rounded by the program to one decimal, are   *)
(*     integers in tenths of a centimetre.                                 *)
(* TLC integers are 32 bits wide, so products are formed through           *)
(* MulDivMod, which never builds a number larger than its operands allow.  *)
(***************************************************************************)
EXTENDS Integers, Sequences, FiniteSets, TLC

\* milli-pixels per pixel
PX == 1000

Abs(a) == IF a < 0 THEN -a ELSE a

Min(a, b) == IF a <= b THEN a ELSE b

Max(a, b) == IF a >= b THEN a ELSE b

RECURSIVE MulDivMod(_, _, _)
\* [q, r] with a*b = q*c + r and 0 <= r < c, for a, b >= 0 and c > 0,
\* by doubling, so that a*b itself is never formed.
MulDivMod(a, b, c) ==
    IF a = 0 \/ b = 0 THEN [q |-> 0, r |-> 0]
    ELSE LET h == MulDivMod(a, b \div 2, c)
             odd == (b % 2 = 1)
             r2 == 2 * h.r + (IF odd THEN a % c ELSE 0)
             q2 == 2 * h.q + (IF odd THEN a \div c ELSE 0)
         IN [q |-> q2 + (r2 \div c), r |-> r2 % c]

\* products are compared digit by digit in base Radix
Radix == 32768

\* the three base-Radix digits of a*b, most significant first, for
\* naturals a, b below Radix * Radix
ProductDigits(a, b) ==
    LET a1 == a \div Radix
        a0 == a % Radix
        b1 == b \div Radix
        b0 == b % Radix
        low == a0 * b0
        middle == a1 * b0 + a0 * b1 + (low \div Radix)
    IN <<a1 * b1 + (middle \div Radix), middle % Radix, low % Radix>>

\* a*b <= c*d for naturals
ProdLeq(a, b, c, d) ==
    LET l == ProductDigits(a, b)
        r == ProductDigits(c, d)
    IN \/ l[1] < r[1]
       \/ l[1] = r[1] /\ l[2] < r[2]
       \/ l[1] = r[1] /\ l[2] = r[2] /\ l[3] <= r[3]

RECURSIVE SqrtSearch(_, _, _, _)
\* the largest r in lo..hi with r*r <= big*big + small*small (lo satisfies it)
SqrtSearch(lo, hi, big, small) ==
    IF lo = hi THEN lo
    ELSE LET mid == lo + ((hi - lo + 1) \div 2)
         IN IF ProdLeq(mid - big, mid + big, small, small)
            THEN SqrtSearch(mid, hi, big, small)
            ELSE SqrtSearch(lo, mid - 1, big, small)

\* math.sqrt(dx**2 + dy**2), rounded down to a whole unit
Hypot(dx, dy) ==
    LET big == Max(Abs(dx), Abs(dy))
        small == Min(Abs(dx), Abs(dy))
    IN IF small = 0 THEN big ELSE SqrtSearch(big, big + small, big, small)

\* Scores of the size predictor are exact fractions of naturals too large for
\* one machine integer; a large natural is the sequence of its base-Radix
\* digits, least significant first, without leading zeros.
RECURSIVE Big(_)
Big(n) == IF n = 0 THEN <<>> ELSE <<n % Radix>> \o Big(n \div Radix)

RECURSIVE BigAddCarry(_, _, _)
BigAddCarry(a, b, carry) ==
    IF a = <<>> /\ b = <<>> THEN Big(carry)
    ELSE LET x == IF a = <<>> THEN 0 ELSE Head(a)
             y == IF b = <<>> THEN 0 ELSE Head(b)
             t == x + y + carry
         IN <<t % Radix>> \o BigAddCarry(IF a = <<>> THEN a ELSE Tail(a),
                                         IF b = <<>> THEN b ELSE Tail(b),
                                         t \div Radix)

BigAdd(a, b) == BigAddCarry(a, b, 0)

RECURSIVE BigScaleCarry(_, _, _)
BigScaleCarry(a, k, carry) ==
    IF a = <<>> THEN Big(carry)
    ELSE LET t == Head(a) * k + carry
         IN <<t % Radix>> \o BigScaleCarry(Tail(a), k, t \div Radix)

\* a times the natural k, k below 2 * Radix
BigScale(a, k) == IF k = 0 THEN <<>> ELSE BigScaleCarry(a, k, 0)

RECURSIVE BigMul(_, _)
BigMul(a, b) ==
    IF a = <<>> \/ b = <<>> THEN <<>>
    ELSE LET rest == BigMul(a, Tail(b))
         IN BigAdd(BigScale(a, Head(b)), IF rest = <<>> THEN rest ELSE <<0>> \o rest)

BigLess(a, b) ==
    \/ Len(a) < Len(b)
    \/ /\ Len(a) = Len(b)
       /\ \E i \in 1..Len(a) :
             a[i] < b[i] /\ \A j \in (i + 1)..Len(a) : a[j] = b[j]

BigLeq(a, b) == ~BigLess(b, a)

RECURSIVE BigSubBorrow(_, _, _)
BigSubBorrow(a, b, borrow) ==
    IF a = <<>> THEN <<>>
    ELSE LET y == (IF b = <<>> THEN 0 ELSE Head(b)) + borrow
             t == IF Head(a) >= y THEN Head(a) - y ELSE Head(a) + Radix - y
         IN <<t>> \o BigSubBorrow(Tail(a), IF b = <<>> THEN b ELSE Tail(b),
                                  IF Head(a) >= y THEN 0 ELSE 1)

RECURSIVE BigTrim(_)
BigTrim(a) ==
    IF a = <<>> THEN a
    ELSE IF a[Len(a)] = 0 THEN BigTrim(SubSeq(a, 1, Len(a) - 1)) ELSE a

\* a - b for a >= b
BigSub(a, b) == BigTrim(BigSubBorrow(a, b, 0))

\* the fraction n/d of two machine naturals
Q(n, d) == [num |-> Big(n), den |-> Big(d)]

QLess(x, y) == BigLess(BigMul(x.num, y.den), BigMul(y.num, x.den))

QLeq(x, y) == ~QLess(y, x)

QEq(x, y) == BigMul(x.num, y.den) = BigMul(y.num, x.den)

(***************************************************************************)
(* BodyDetector (src/app/models/body_detector.py)                          *)
(***************************************************************************)

\* the 13 landmark names detect_landmarks assigns
LandmarkNames ==
    {"NOSE", "LEFT_SHOULDER", "RIGHT_SHOULDER", "LEFT_ELBOW", "RIGHT_ELBOW",
     "LEFT_WRIST", "RIGHT_WRIST", "LEFT_HIP", "RIGHT_HIP", "LEFT_KNEE",
     "RIGHT_KNEE", "LEFT_ANKLE", "RIGHT_ANKLE"}

\* Optional values: Python's None, and a present value
None == [some |-> FALSE]

Some(v) == [some |-> TRUE, val |-> v]

Point(px, py) == [x |-> px, y |-> py]

\* v * num / den for a float product whose exact value is a whole milli-pixel
Times(v, num, den) == (v * num) \div den

\* v // 2 on a float holding v milli-pixels: whole pixels, rounded down
FloorHalf(v) == (v \div (2 * PX)) * PX

\* max(faces, key=lambda x: x[2] * x[3]): the first face of maximal area
LargestFace(faces) ==
    LET area(f) == f.w * f.h
        best == CHOOSE i \in 1..Len(faces) :
                    /\ \A j \in 1..Len(faces) : area(faces[j]) <= area(faces[i])
                    /\ \A j \in 1..(i - 1) : area(faces[j]) < area(faces[i])
    IN faces[best]

\* head_height = fh * 1.2, for a face height in milli-pixels
HeadHeight(fh) == Times(fh, 12, 10)

\* shoulder_width = head_height * 1.3
ShoulderWidth(fh) == Times(HeadHeight(fh), 13, 10)

\* shoulder_y = fy + fh + head_height * 0.2
ShoulderY(fy, fh) == fy + fh + Times(HeadHeight(fh), 2, 10)

\* the x offset of a shoulder from the face centre with true division,
\* shoulder_width / 2
ShoulderHalfTrueDivision(shoulder_width) == shoulder_width \div 2

\* the x offset of a shoulder from the face centre: shoulder_width // 2
ShoulderHalf(shoulder_width) == FloorHalf(shoulder_width)

\* the landmarks estimated from the face box, before clamping (lines 51-109)
EstimateLandmarks(face) ==
    LET fx == face.x * PX
        fy == face.y * PX
        fh == face.h * PX
        face_center_x == fx + (face.w \div 2) * PX
        head_height == HeadHeight(fh)
        shoulder_width == ShoulderWidth(fh)
        shoulder_y == ShoulderY(fy, fh)
        left_shoulder_x == face_center_x - ShoulderHalf(shoulder_width)
        right_shoulder_x == face_center_x + ShoulderHalf(shoulder_width)
        torso_length == Times(head_height, 25, 10)
        hip_width == Times(shoulder_width, 85, 100)
        hip_y == shoulder_y + torso_length
        left_hip_x == face_center_x - FloorHalf(hip_width)
        right_hip_x == face_center_x + FloorHalf(hip_width)
        arm_length == Times(head_height, 20, 10)
        elbow_y == shoulder_y + Times(arm_length, 6, 10)
        wrist_y == shoulder_y + arm_length
        arm_offset == Times(shoulder_width, 15, 100)
        leg_length == head_height * 4
        knee_y == hip_y + Times(leg_length, 55, 100)
        ankle_y == hip_y + leg_length
    IN [n \in LandmarkNames |->
          CASE n = "NOSE" -> Point(face_center_x, fy + Times(fh, 6, 10))
            [] n = "LEFT_SHOULDER" -> Point(left_shoulder_x, shoulder_y)
            [] n = "RIGHT_SHOULDER" -> Point(right_shoulder_x, shoulder_y)
            [] n = "LEFT_HIP" -> Point(left_hip_x, hip_y)
            [] n = "RIGHT_HIP" -> Point(right_hip_x, hip_y)
            [] n = "LEFT_ELBOW" -> Point(left_shoulder_x - arm_offset, elbow_y)
            [] n = "RIGHT_ELBOW" -> Point(right_shoulder_x + arm_offset, elbow_y)
            [] n = "LEFT_WRIST" -> Point(left_shoulder_x - arm_offset, wrist_y)
            [] n = "RIGHT_WRIST" -> Point(right_shoulder_x + arm_offset, wrist_y)
            [] n = "LEFT_KNEE" -> Point(left_hip_x, knee_y)
            [] n = "RIGHT_KNEE" -> Point(right_hip_x, knee_y)
            [] n = "LEFT_ANKLE" -> Point(left_hip_x, ankle_y)
            [] n = "RIGHT_ANKLE" -> Point(right_hip_x, ankle_y)]

\* a clamp that lets a coordinate reach the limit itself
ClampCoordToLimit(v, limit) == Max(0, Min(limit * PX, v))

\* max(0, min(limit - 1, v)) for one coordinate, limit in pixels
ClampCoord(v, limit) == Max(0, Min((limit - 1) * PX, v))

\* _clamp_landmarks_to_image
clamp_landmarks_to_image(landmarks, width, height) ==
    [n \in DOMAIN landmarks |->
        Point(ClampCoord(landmarks[n].x, width), ClampCoord(landmarks[n].y, height))]

\* detect_landmarks: None when the image is invalid (the exception handler) or
\* no face is found, otherwise the clamped estimate for the largest face
\* a detector that takes the whole image for the face when the cascade
\* reports none
DetectLandmarksWholeImage(image, faces) ==
    IF ~image.valid THEN None
    ELSE IF Len(faces) = 0
         THEN Some(clamp_landmarks_to_image(
                       EstimateLandmarks([x |-> 0, y |-> 0,
                                          w |-> image.width, h |-> image.height]),
                       image.width, image.height))
    ELSE Some(clamp_landmarks_to_image(EstimateLandmarks(LargestFace(faces)),
                                       image.width, image.height))

detect_landmarks(image, faces) ==
    IF ~image.valid \/ Len(faces) = 0 THEN None
    ELSE Some(clamp_landmarks_to_image(EstimateLandmarks(LargestFace(faces)),
                                       image.width, image.height))

\* the confidence detect_landmarks stores, in tenths: 0.8
EstimationConfidence == 8

\* _last_confidence after a detect_landmarks call: assigned only on the path
\* that returns landmarks
\* a detector whose confidence grows with the detections it has made
ConfidenceGrowing(prev, found) ==
    IF found.some THEN Min(prev + EstimationConfidence, 10) ELSE prev

\* a detector that forgets its confidence when it finds no face
ConfidenceReset(prev, found) == IF found.some THEN EstimationConfidence ELSE 0

ConfidenceAfter(prev, found) == IF found.some THEN EstimationConfidence ELSE prev

RequiredLandmarks == {"LEFT_SHOULDER", "RIGHT_SHOULDER", "LEFT_HIP", "RIGHT_HIP"}

\* the tilt test with its two operands exchanged
TiltedReversed(shoulder_y_diff, shoulder_distance) ==
    shoulder_distance > 5 * shoulder_y_diff

\* shoulder_y_diff > 0.2 * shoulder_distance
Tilted(shoulder_y_diff, shoulder_distance) ==
    5 * shoulder_y_diff > shoulder_distance

\* validate_pose(landmarks)
validate_pose(landmarks) ==
    IF ~(RequiredLandmarks \subseteq DOMAIN landmarks) THEN FALSE
    ELSE LET left_shoulder == landmarks["LEFT_SHOULDER"]
             right_shoulder == landmarks["RIGHT_SHOULDER"]
             shoulder_y_diff == Abs(left_shoulder.y - right_shoulder.y)
             shoulder_distance == Hypot(left_shoulder.x - right_shoulder.x,
                                        left_shoulder.y - right_shoulder.y)
         IN ~Tilted(shoulder_y_diff, shoulder_distance)

(***************************************************************************)
(* MeasurementCalculator (src/app/models/measurement.py)                   *)
(*                                                                         *)
(* A scale factor is the rational n/d milli-pixels per centimetre.  A      *)
(* centimetre value before rounding is the mixed number q + r/c.           *)
(***************************************************************************)

Rat(num, den) == [n |-> num, d |-> den]

\* _calculate_distance: Euclidean distance of two points, in milli-pixels
calculate_distance(point1, point2) ==
    Hypot(point1.x - point2.x, point1.y - point2.y)

\* lo <= scale <= hi for a scale n/d, lo and hi in milli-pixels per centimetre
ScaleWithin(scale, lo, hi) == lo * scale.d <= scale.n /\ scale.n <= hi * scale.d

\* an order of preference that puts the hip measurement first
HipsFirstMethods == <<"hips", "shoulders">>

\* the methods preferred, in order, when several candidates were accepted
PreferredMethods == <<"shoulders", "hips">>

\* the first entry of scale_factors computed by the given method
NextByMethod(scale_factors, method) ==
    scale_factors[CHOOSE i \in 1..Len(scale_factors) :
                      /\ scale_factors[i].method = method
                      /\ \A j \in 1..(i - 1) : scale_factors[j].method # method].sf

AnyByMethod(scale_factors, method) ==
    \E i \in 1..Len(scale_factors) : scale_factors[i].method = method

\* lines 140-156: prefer shoulder measurement, then hip, then image height
ChooseScale(scale_factors) ==
    IF Len(scale_factors) = 0 THEN None
    ELSE IF AnyByMethod(scale_factors, PreferredMethods[1])
         THEN Some(NextByMethod(scale_factors, PreferredMethods[1]))
    ELSE IF AnyByMethod(scale_factors, PreferredMethods[2])
         THEN Some(NextByMethod(scale_factors, PreferredMethods[2]))
    ELSE Some(scale_factors[1].sf)

\* _calculate_scale_factor(landmarks, image_shape).  image_shape is
\* [given |-> FALSE] for a falsy shape (None, ()), else [given |-> TRUE,
\* height |-> pixels].
calculate_scale_factor(landmarks, image_shape) ==
    LET shoulders ==
            IF {"LEFT_SHOULDER", "RIGHT_SHOULDER"} \subseteq DOMAIN landmarks
            THEN LET sf == Rat(calculate_distance(landmarks["LEFT_SHOULDER"],
                                                  landmarks["RIGHT_SHOULDER"]), 40)
                 IN IF ScaleWithin(sf, 500, 15000)
                    THEN <<[method |-> "shoulders", sf |-> sf]>> ELSE <<>>
            ELSE <<>>
        hips ==
            IF {"LEFT_HIP", "RIGHT_HIP"} \subseteq DOMAIN landmarks
            THEN LET sf == Rat(calculate_distance(landmarks["LEFT_HIP"],
                                                  landmarks["RIGHT_HIP"]), 36)
                 IN IF ScaleWithin(sf, 500, 15000)
                    THEN <<[method |-> "hips", sf |-> sf]>> ELSE <<>>
            ELSE <<>>
        image_height ==
            IF image_shape.given
            THEN LET sf == Rat(image_shape.height * 850, 165)
                 IN IF ScaleWithin(sf, 300, 20000)
                    THEN <<[method |-> "image_height", sf |-> sf]>> ELSE <<>>
            ELSE <<>>
    IN ChooseScale(shoulders \o hips \o image_height)

\* pixels * num / den, with the scale factor left out
RawCmUnscaled(pixels, num, den, scale) ==
    LET m == MulDivMod(pixels, num, PX * den)
    IN [q |-> m.q, r |-> m.r, c |-> PX * den]

\* pixels / scale * num / den as the mixed number q + r/c centimetres
RawCm(pixels, num, den, scale) ==
    LET c == scale.n * den
        m == MulDivMod(pixels, scale.d * num, c)
    IN [q |-> m.q, r |-> m.r, c |-> c]

\* lo < raw < hi, for whole numbers lo and hi
InWindow(raw, lo, hi) ==
    /\ raw.q > lo \/ (raw.q = lo /\ raw.r > 0)
    /\ raw.q < hi

\* lo <= raw <= hi: a window that admits its end points
InClosedWindow(raw, lo, hi) ==
    /\ raw.q >= lo
    /\ raw.q < hi \/ (raw.q = hi /\ raw.r = 0)

\* round(raw, 1) in tenths of a centimetre; an exact half goes to the even
\* tenth
Round1(raw) ==
    LET m == MulDivMod(raw.r, 10, raw.c)
        t == 10 * raw.q + m.q
    IN IF 2 * m.r > raw.c \/ (2 * m.r = raw.c /\ t % 2 = 1) THEN t + 1 ELSE t

\* `return round(value, 1)` when the value is inside its window, else None
Validated(raw, lo, hi) == IF InWindow(raw, lo, hi) THEN Some(Round1(raw)) ELSE None

\* a height without the head-top offset: the distance from the nose to the
\* mean of the ankles present, over the scale
HeightRawNoseOnly(landmarks, scale) ==
    LET ankles == {"LEFT_ANKLE", "RIGHT_ANKLE"} \cap DOMAIN landmarks
        count == Cardinality(ankles)
        SumX == IF count = 2
                THEN landmarks["LEFT_ANKLE"].x + landmarks["RIGHT_ANKLE"].x
                ELSE landmarks[CHOOSE a \in ankles : TRUE].x
        SumY == IF count = 2
                THEN landmarks["LEFT_ANKLE"].y + landmarks["RIGHT_ANKLE"].y
                ELSE landmarks[CHOOSE a \in ankles : TRUE].y
        nose == landmarks["NOSE"]
    IN RawCm(Hypot(count * nose.x - SumX, count * nose.y - SumY), 1, count, scale)

\* the centimetre value _calculate_height validates: 1.06 times the distance
\* from the nose to the mean of the ankles present, over the scale
HeightRaw(landmarks, scale) ==
    LET ankles == {"LEFT_ANKLE", "RIGHT_ANKLE"} \cap DOMAIN landmarks
        count == Cardinality(ankles)
        SumX == IF count = 2
                THEN landmarks["LEFT_ANKLE"].x + landmarks["RIGHT_ANKLE"].x
                ELSE landmarks[CHOOSE a \in ankles : TRUE].x
        SumY == IF count = 2
                THEN landmarks["LEFT_ANKLE"].y + landmarks["RIGHT_ANKLE"].y
                ELSE landmarks[CHOOSE a \in ankles : TRUE].y
        nose == landmarks["NOSE"]
        \* count times the distance from the nose to the averaged ankle
        nose_to_ankle == Hypot(count * nose.x - SumX, count * nose.y - SumY)
    IN RawCm(nose_to_ankle, 53, 50 * count, scale)

calculate_height(landmarks, scale) ==
    IF "NOSE" \notin DOMAIN landmarks THEN None
    ELSE IF {"LEFT_ANKLE", "RIGHT_ANKLE"} \cap DOMAIN landmarks = {} THEN None
    ELSE IF scale.n = 0 THEN None
    ELSE Validated(HeightRaw(landmarks, scale), 120, 250)

ShoulderPixels(landmarks) ==
    calculate_distance(landmarks["LEFT_SHOULDER"], landmarks["RIGHT_SHOULDER"])

HipPixels(landmarks) ==
    calculate_distance(landmarks["LEFT_HIP"], landmarks["RIGHT_HIP"])

ShoulderWidthRaw(landmarks, scale) == RawCm(ShoulderPixels(landmarks), 1, 1, scale)

\* a shoulder width accepted only above 40 cm
ShoulderWidthAboveReference(landmarks, scale) ==
    IF ~({"LEFT_SHOULDER", "RIGHT_SHOULDER"} \subseteq DOMAIN landmarks) THEN None
    ELSE IF scale.n = 0 THEN None
    ELSE Validated(ShoulderWidthRaw(landmarks, scale), 40, 80)

calculate_shoulder_width(landmarks, scale) ==
    IF ~({"LEFT_SHOULDER", "RIGHT_SHOULDER"} \subseteq DOMAIN landmarks) THEN None
    ELSE IF scale.n = 0 THEN None
    ELSE Validated(ShoulderWidthRaw(landmarks, scale), 20, 80)

\* shoulder_width_cm * 0.85 * 2.8, that is times 119/50
ChestRaw(landmarks, scale) == RawCm(ShoulderPixels(landmarks), 119, 50, scale)

calculate_chest_circumference(landmarks, scale) ==
    IF ~({"LEFT_SHOULDER", "RIGHT_SHOULDER"} \subseteq DOMAIN landmarks) THEN None
    ELSE IF scale.n = 0 THEN None
    ELSE Validated(ChestRaw(landmarks, scale), 70, 150)

\* hip_width_cm * 0.75 * 2.6, that is times 39/20
\* a waist as wide as 95% of the hip width: times 247/100
WaistRawNearHip(landmarks, scale) == RawCm(HipPixels(landmarks), 247, 100, scale)

WaistRaw(landmarks, scale) == RawCm(HipPixels(landmarks), 39, 20, scale)

calculate_waist_circumference(landmarks, scale) ==
    IF ~({"LEFT_HIP", "RIGHT_HIP"} \subseteq DOMAIN landmarks) THEN None
    ELSE IF scale.n = 0 THEN None
    ELSE Validated(WaistRaw(landmarks, scale), 60, 120)

\* hip_width_cm * 2.8, that is times 14/5
HipRaw(landmarks, scale) == RawCm(HipPixels(landmarks), 14, 5, scale)

calculate_hip_circumference(landmarks, scale) ==
    IF ~({"LEFT_HIP", "RIGHT_HIP"} \subseteq DOMAIN landmarks) THEN None
    ELSE IF scale.n = 0 THEN None
    ELSE Validated(HipRaw(landmarks, scale), 75, 140)

ArmPresent(landmarks, side) ==
    {side \o "_SHOULDER", side \o "_WRIST"} \subseteq DOMAIN landmarks

ArmRaw(landmarks, side, scale) ==
    RawCm(calculate_distance(landmarks[side \o "_SHOULDER"],
                             landmarks[side \o "_WRIST"]), 1, 1, scale)

\* the arm of the given side yields a value inside (40, 90)
ArmValid(landmarks, side, scale) ==
    ArmPresent(landmarks, side) /\ InWindow(ArmRaw(landmarks, side, scale), 40, 90)

\* an arm length that tries the right arm first
ArmLengthRightFirst(landmarks, scale) ==
    IF scale.n = 0 THEN None
    ELSE IF ArmValid(landmarks, "RIGHT", scale)
         THEN Some(Round1(ArmRaw(landmarks, "RIGHT", scale)))
    ELSE IF ArmValid(landmarks, "LEFT", scale)
         THEN Some(Round1(ArmRaw(landmarks, "LEFT", scale)))
    ELSE None

\* _calculate_arm_length: the left arm first, then the right arm
calculate_arm_length(landmarks, scale) ==
    IF scale.n = 0 THEN None
    ELSE IF ArmValid(landmarks, "LEFT", scale)
         THEN Some(Round1(ArmRaw(landmarks, "LEFT", scale)))
    ELSE IF ArmValid(landmarks, "RIGHT", scale)
         THEN Some(Round1(ArmRaw(landmarks, "RIGHT", scale)))
    ELSE None

MeasurementNames ==
    {"height", "shoulder_width", "chest_circumference", "waist_circumference",
     "hip_circumference", "arm_length"}

\* lines 62-67: the six measurements, each a value or None
IndividualMeasurements(landmarks, scale) ==
    [m \in MeasurementNames |->
        CASE m = "height" -> calculate_height(landmarks, scale)
          [] m = "shoulder_width" -> calculate_shoulder_width(landmarks, scale)
          [] m = "chest_circumference" -> calculate_chest_circumference(landmarks, scale)
          [] m = "waist_circumference" -> calculate_waist_circumference(landmarks, scale)
          [] m = "hip_circumference" -> calculate_hip_circumference(landmarks, scale)
          [] m = "arm_length" -> calculate_arm_length(landmarks, scale)]

\* a filter that reports a missing measurement as zero
NoneAsZero(measurements) ==
    [m \in DOMAIN measurements |->
        IF measurements[m].some THEN measurements[m].val ELSE 0]

\* line 77: {k: v for k, v in measurements.items() if v is not None}
FilterNone(measurements) ==
    [m \in {k \in DOMAIN measurements : measurements[k].some} |-> measurements[m].val]

\* the empty dict {}
EmptyDict == [k \in {} |-> 0]

\* lines 61-80: the measurement set for a scale factor that was found
DeriveMeasurements(landmarks, scale) ==
    FilterNone(IndividualMeasurements(landmarks, scale))

\* calculate_measurements(landmarks, image_shape)
calculate_measurements(landmarks, image_shape) ==
    LET scale_factor == calculate_scale_factor(landmarks, image_shape)
    IN IF ~scale_factor.some THEN EmptyDict
       ELSE DeriveMeasurements(landmarks, scale_factor.val)

(***************************************************************************)
(* SizeCharts (src/app/utils/size_charts.py)                               *)
(*                                                                         *)
(* The tables hold centimetres as the source writes them.  A chart handed  *)
(* to the predictor is a sequence of [size, row] entries in the order of   *)
(* the dict, its values in tenths of a centimetre like the measurements.   *)
(***************************************************************************)

SizeLabels == <<"XS", "S", "M", "L", "XL", "XXL">>

womens_tops ==
    <<[chest |-> 81, waist |-> 61, shoulder |-> 35],
      [chest |-> 86, waist |-> 66, shoulder |-> 37],
      [chest |-> 91, waist |-> 71, shoulder |-> 39],
      [chest |-> 97, waist |-> 76, shoulder |-> 41],
      [chest |-> 102, waist |-> 81, shoulder |-> 43],
      [chest |-> 107, waist |-> 86, shoulder |-> 45]>>

womens_bottoms ==
    <<[waist |-> 61, hip |-> 86], [waist |-> 66, hip |-> 91],
      [waist |-> 71, hip |-> 97], [waist |-> 76, hip |-> 102],
      [waist |-> 81, hip |-> 107], [waist |-> 86, hip |-> 112]>>

womens_dresses ==
    <<[chest |-> 81, waist |-> 61, hip |-> 86],
      [chest |-> 86, waist |-> 66, hip |-> 91],
      [chest |-> 91, waist |-> 71, hip |-> 97],
      [chest |-> 97, waist |-> 76, hip |-> 102],
      [chest |-> 102, waist |-> 81, hip |-> 107],
      [chest |-> 107, waist |-> 86, hip |-> 112]>>

mens_tops ==
    <<[chest |-> 86, waist |-> 71, shoulder |-> 42],
      [chest |-> 91, waist |-> 76, shoulder |-> 44],
      [chest |-> 97, waist |-> 81, shoulder |-> 46],
      [chest |-> 102, waist |-> 86, shoulder |-> 48],
      [chest |-> 107, waist |-> 91, shoulder |-> 50],
      [chest |-> 112, waist |-> 97, shoulder |-> 52]>>

mens_bottoms ==
    <<[waist |-> 71, hip |-> 91], [waist |-> 76, hip |-> 97],
      [waist |-> 81, hip |-> 102], [waist |-> 86, hip |-> 107],
      [waist |-> 91, hip |-> 112], [waist |-> 97, hip |-> 117]>>

outerwear ==
    <<[chest |-> 91, shoulder |-> 40, arm_length |-> 59],
      [chest |-> 97, shoulder |-> 42, arm_length |-> 61],
      [chest |-> 102, shoulder |-> 44, arm_length |-> 63],
      [chest |-> 107, shoulder |-> 46, arm_length |-> 65],
      [chest |-> 112, shoulder |-> 48, arm_length |-> 67],
      [chest |-> 117, shoulder |-> 50, arm_length |-> 69]>>

\* the chart of a table: its rows in tenths of a centimetre, under their sizes
ChartCopy(table) ==
    [i \in 1..Len(table) |->
        [size |-> SizeLabels[i],
         row |-> [k \in DOMAIN table[i] |-> 10 * table[i][k]]]]

\* the unisex chart: (mens_val + womens_val) / 2 for every size and measurement
UnisexChart(mens, womens) ==
    [i \in 1..Len(mens) |->
        [size |-> SizeLabels[i],
         row |-> [k \in DOMAIN mens[i] |-> 5 * (mens[i][k] + womens[i][k])]]]

\* get_tops_chart() with its default gender 'unisex'
\* a tops chart that hands out the men's table
MensTopsChart == ChartCopy(mens_tops)

get_tops_chart == UnisexChart(mens_tops, womens_tops)

\* get_bottoms_chart() with its default gender 'unisex'
get_bottoms_chart == UnisexChart(mens_bottoms, womens_bottoms)

get_dresses_chart == ChartCopy(womens_dresses)

get_outerwear_chart == ChartCopy(outerwear)

\* _initialize_charts: the tables a SizeCharts object holds
initialize_charts ==
    [womens_tops |-> womens_tops, womens_bottoms |-> womens_bottoms,
     womens_dresses |-> womens_dresses, mens_tops |-> mens_tops,
     mens_bottoms |-> mens_bottoms, outerwear |-> outerwear]

(***************************************************************************)
(* SizePredictor (src/app/models/size_predictor.py)                        *)
(***************************************************************************)

\* measurement_weights with shoulder weighing as much as chest
EqualWeight(measurement) ==
    CASE measurement = "arm_length" -> 3
      [] OTHER -> 5

\* measurement_weights.get(measurement, 1.0), in fifths
Weight(measurement) ==
    CASE measurement \in {"chest", "waist", "hip"} -> 5
      [] measurement = "shoulder" -> 4
      [] measurement = "arm_length" -> 3
      [] OTHER -> 5

\* float('inf')
Infinite == [inf |-> TRUE, num |-> <<>>, den |-> Big(1)]

Finite(num, den) == [inf |-> FALSE, num |-> num, den |-> den]

RECURSIVE BigProduct(_, _)
\* the product of row[k] over the keys k
BigProduct(keys, row) ==
    IF keys = {} THEN Big(1)
    ELSE LET k == CHOOSE x \in keys : TRUE
         IN BigScale(BigProduct(keys \ {k}, row), row[k])

RECURSIVE WeightedDiffs(_, _, _, _)
\* the sum over k in todo of weight * |user - size| * product of the other
\* size values of the shared keys
WeightedDiffs(todo, shared, user, row) ==
    IF todo = {} THEN <<>>
    ELSE LET k == CHOOSE x \in todo : TRUE
             term == BigScale(BigScale(BigProduct(shared \ {k}, row),
                                       Abs(user[k] - row[k])), Weight(k))
         IN BigAdd(term, WeightedDiffs(todo \ {k}, shared, user, row))

RECURSIVE SumOfWeights(_)
SumOfWeights(keys) ==
    IF keys = {} THEN 0
    ELSE LET k == CHOOSE x \in keys : TRUE
         IN Weight(k) + SumOfWeights(keys \ {k})

\* _calculate_fit_score: total_score / measurement_count as an exact fraction,
\* float('inf') when no measurement is shared or the division by a size value
\* raises
calculate_fit_score(user_measurements, size_measurements) ==
    LET shared == DOMAIN user_measurements \cap DOMAIN size_measurements
    IN IF shared = {} THEN Infinite
       ELSE IF \E k \in shared : size_measurements[k] = 0 THEN Infinite
       ELSE Finite(WeightedDiffs(shared, shared, user_measurements, size_measurements),
                   BigScale(BigProduct(shared, size_measurements), SumOfWeights(shared)))

\* score1 <= score2: the comparison that lets a later entry of equal score win
ScoreNotGreater(score1, score2) ==
    score2.inf \/ (~score1.inf /\ QLeq(score1, score2))

\* score1 < score2 as Python compares floats, float('inf') included
ScoreLess(score1, score2) ==
    /\ ~score1.inf
    /\ score2.inf \/ QLess(score1, score2)

\* fit_score < n/d: bands that exclude their upper boundary
ScoreBelow(fit_score, n, d) == ~fit_score.inf /\ QLess(fit_score, Q(n, d))

\* fit_score <= n/d
ScoreAtMost(fit_score, n, d) == ~fit_score.inf /\ QLeq(fit_score, Q(n, d))

\* _calculate_confidence: the confidence as an exact fraction
\* a conversion without the 50% minimum: 1 - fit_score, not below zero
ConfidenceWithoutMinimum(fit_score) ==
    IF ScoreAtMost(fit_score, 5, 100) THEN Q(95, 100)
    ELSE IF ScoreAtMost(fit_score, 1, 10) THEN Q(9, 10)
    ELSE IF ScoreAtMost(fit_score, 15, 100) THEN Q(85, 100)
    ELSE IF ScoreAtMost(fit_score, 2, 10) THEN Q(8, 10)
    ELSE IF ScoreAtMost(fit_score, 3, 10) THEN Q(7, 10)
    ELSE IF ScoreAtMost(fit_score, 1, 1)
         THEN [num |-> BigSub(fit_score.den, fit_score.num), den |-> fit_score.den]
    ELSE Q(0, 10)

calculate_confidence(fit_score) ==
    IF ScoreAtMost(fit_score, 5, 100) THEN Q(95, 100)
    ELSE IF ScoreAtMost(fit_score, 1, 10) THEN Q(9, 10)
    ELSE IF ScoreAtMost(fit_score, 15, 100) THEN Q(85, 100)
    ELSE IF ScoreAtMost(fit_score, 2, 10) THEN Q(8, 10)
    ELSE IF ScoreAtMost(fit_score, 3, 10) THEN Q(7, 10)
    ELSE IF ScoreAtMost(fit_score, 1, 2)
         THEN [num |-> BigSub(fit_score.den, fit_score.num), den |-> fit_score.den]
    ELSE Q(5, 10)

\* a matcher that keeps the first size of the chart
BestIndexFirst(measurements, size_chart, i, best, best_score) ==
    IF Len(size_chart) = 0 THEN 0 ELSE 1

RECURSIVE BestIndex(_, _, _, _, _)
\* the loop of _find_best_size_match from entry i on: the index of the best
\* size so far (0 for None) is replaced when an entry scores strictly lower
BestIndex(measurements, size_chart, i, best, best_score) ==
    IF i > Len(size_chart) THEN best
    ELSE LET score == calculate_fit_score(measurements, size_chart[i].row)
         IN IF ScoreLess(score, best_score)
            THEN BestIndex(measurements, size_chart, i + 1, i, score)
            ELSE BestIndex(measurements, size_chart, i + 1, best, best_score)

\* _find_best_size_match(measurements, size_chart, primary_measurement)
find_best_size_match(measurements, size_chart, primary_measurement) ==
    IF Len(size_chart) = 0 \/ primary_measurement \notin DOMAIN measurements
    THEN None
    ELSE LET best == BestIndex(measurements, size_chart, 1, 0, Infinite)
         IN IF best = 0 THEN None
            ELSE LET best_score ==
                         calculate_fit_score(measurements, size_chart[best].row)
                 IN Some([size |-> size_chart[best].size,
                          confidence |-> calculate_confidence(best_score),
                          fit_score |-> best_score,
                          size_measurements |-> size_chart[best].row])

\* the keys of the measurements dict in the order calculate_measurements
\* inserts them
MeasurementOrder ==
    <<"height", "shoulder_width", "chest_circumference", "waist_circumference",
      "hip_circumference", "arm_length">>

Note(text) == [text |-> text, measurement |-> "", percent |-> 0]

\* abs(diff_percentage) as '.1f' prints it, in tenths of a percent
PercentTenths(user_value, size_value) ==
    LET m == MulDivMod(Abs(user_value - size_value), 1000, size_value)
    IN IF 2 * m.r > size_value \/ (2 * m.r = size_value /\ m.q % 2 = 1)
       THEN m.q + 1 ELSE m.q

\* abs(diff_percentage) > 15
SignificantDifference(user_value, size_value) ==
    100 * Abs(user_value - size_value) > 15 * size_value

RECURSIVE DeviationNotes(_, _, _)
\* the loop over measurements.items() from entry i of MeasurementOrder on
DeviationNotes(measurements, size_measurements, i) ==
    IF i > Len(MeasurementOrder) THEN <<>>
    ELSE LET measurement == MeasurementOrder[i]
             rest == DeviationNotes(measurements, size_measurements, i + 1)
         IN IF measurement \in DOMAIN measurements \cap DOMAIN size_measurements
            THEN LET user_value == measurements[measurement]
                     size_value == size_measurements[measurement]
                 IN IF SignificantDifference(user_value, size_value)
                    THEN <<[text |-> IF user_value > size_value
                                     THEN "larger than average for this size"
                                     ELSE "smaller than average for this size",
                            measurement |-> measurement,
                            percent |-> PercentTenths(user_value, size_value)]>>
                         \o rest
                    ELSE rest
            ELSE rest

\* the recommendation added for a top or a bottom
GarmentNotes(measurements, size_match, garment_type) ==
    IF garment_type = "top"
    THEN IF QLess(size_match.confidence, Q(8, 10))
         THEN <<Note("Consider trying adjacent sizes for the best fit")>> ELSE <<>>
    ELSE IF garment_type = "bottom"
    THEN IF /\ {"waist_circumference", "hip_circumference"} \subseteq DOMAIN measurements
            /\ measurements["hip_circumference"]
                 - measurements["waist_circumference"] > 250
         THEN <<Note("Consider a pear-shaped fit for better hip accommodation")>>
         ELSE <<>>
    ELSE <<>>

\* closing remarks whose bands include their lower boundary
ClosingNoteInclusive(confidence) ==
    IF QLeq(Q(9, 10), confidence)
    THEN Note("Excellent size match - this should fit very well")
    ELSE IF QLeq(Q(8, 10), confidence)
    THEN Note("Good size match - should fit well")
    ELSE IF QLeq(Q(7, 10), confidence)
    THEN Note("Reasonable fit - consider trying on if possible")
    ELSE Note("Uncertain fit - recommend trying on or checking return policy")

\* the closing remark chosen by the confidence
ClosingNote(confidence) ==
    IF QLess(Q(9, 10), confidence)
    THEN Note("Excellent size match - this should fit very well")
    ELSE IF QLess(Q(8, 10), confidence)
    THEN Note("Good size match - should fit well")
    ELSE IF QLess(Q(7, 10), confidence)
    THEN Note("Reasonable fit - consider trying on if possible")
    ELSE Note("Uncertain fit - recommend trying on or checking return policy")

\* _generate_fit_notes(measurements, size_match, garment_type)
generate_fit_notes(measurements, size_match, garment_type) ==
    IF \E k \in DOMAIN measurements \cap DOMAIN size_match.size_measurements :
           size_match.size_measurements[k] = 0
    THEN <<Note("Unable to generate fit recommendations")>>
    ELSE DeviationNotes(measurements, size_match.size_measurements, 1)
         \o GarmentNotes(measurements, size_match, garment_type)
         \o <<ClosingNote(size_match.confidence)>>

\* the prediction built from a best match, None without one
Prediction(measurements, best_match, garment_type) ==
    IF best_match.some
    THEN Some([size |-> best_match.val.size,
               confidence |-> best_match.val.confidence,
               fit_notes |-> generate_fit_notes(measurements, best_match.val,
                                                garment_type)])
    ELSE None

TopRequired == {"chest_circumference", "shoulder_width"}

BottomRequired == {"waist_circumference", "hip_circumference"}

\* a dress that asks for the shoulder width as well
DressRequiredWithShoulder ==
    {"chest_circumference", "waist_circumference", "hip_circumference",
     "shoulder_width"}

DressRequired == {"chest_circumference", "waist_circumference", "hip_circumference"}

OuterwearRequired == {"chest_circumference", "shoulder_width"}

predict_top_size(measurements) ==
    IF ~(TopRequired \subseteq DOMAIN measurements) THEN None
    ELSE Prediction(measurements,
                    find_best_size_match(
                        [chest |-> measurements["chest_circumference"],
                         shoulder |-> measurements["shoulder_width"]],
                        get_tops_chart, "chest"),
                    "top")

predict_bottom_size(measurements) ==
    IF ~(BottomRequired \subseteq DOMAIN measurements) THEN None
    ELSE Prediction(measurements,
                    find_best_size_match(
                        [waist |-> measurements["waist_circumference"],
                         hip |-> measurements["hip_circumference"]],
                        get_bottoms_chart, "waist"),
                    "bottom")

predict_dress_size(measurements) ==
    IF ~(DressRequired \subseteq DOMAIN measurements) THEN None
    ELSE Prediction(measurements,
                    find_best_size_match(
                        [chest |-> measurements["chest_circumference"],
                         waist |-> measurements["waist_circumference"],
                         hip |-> measurements["hip_circumference"]],
                        get_dresses_chart, "chest"),
                    "dress")

predict_outerwear_size(measurements) ==
    IF ~(OuterwearRequired \subseteq DOMAIN measurements) THEN None
    ELSE LET arm_length == IF "arm_length" \in DOMAIN measurements
                           THEN measurements["arm_length"] ELSE 0
             chest_shoulder == [chest |-> measurements["chest_circumference"],
                                shoulder |-> measurements["shoulder_width"]]
             measurements_dict ==
                 IF arm_length > 0
                 THEN [chest |-> measurements["chest_circumference"],
                       shoulder |-> measurements["shoulder_width"],
                       arm_length |-> arm_length]
                 ELSE chest_shoulder
         IN Prediction(measurements,
                       find_best_size_match(measurements_dict,
                                            get_outerwear_chart, "chest"),
                       "outerwear")

Categories == {"tops", "bottoms", "dresses", "outerwear"}

\* predict_sizes(measurements): the categories whose prediction is not None
predict_sizes(measurements) ==
    LET predictions ==
            [category \in Categories |->
                CASE category = "tops" -> predict_top_size(measurements)
                  [] category = "bottoms" -> predict_bottom_size(measurements)
                  [] category = "dresses" -> predict_dress_size(measurements)
                  [] category = "outerwear" -> predict_outerwear_size(measurements)]
    IN [category \in {c \in Categories : predictions[c].some} |->
            predictions[category].val]

\* the tables of the SizeCharts object after predict_sizes(measurements):
\* get_tops_chart and get_bottoms_chart fill a new dictionary,
\* get_dresses_chart and get_outerwear_chart copy the table, and the matcher
\* and the fit notes only read the rows they are handed
\* a get_tops_chart that stores the averages in the men's table it reads
ChartsAveragedInPlace(tables, measurements) ==
    IF TopRequired \subseteq DOMAIN measurements
    THEN [tables EXCEPT !.mens_tops =
             [i \in 1..Len(tables.mens_tops) |->
                 [k \in DOMAIN tables.mens_tops[i] |->
                     (tables.mens_tops[i][k] + tables.womens_tops[i][k]) \div 2]]]
    ELSE tables

ChartsAfterPrediction(tables, measurements) == tables

(***************************************************************************)
(* Direct calls of detect_landmarks on one detector                        *)
(***************************************************************************)

\* the largest number of faces the cascade reports in one image
MaxFaces == 2

Image(h, w) == [valid |-> TRUE, height |-> h, width |-> w]

\* detect_landmarks(None), detect_landmarks(np.array([]))
InvalidImage == [valid |-> FALSE, height |-> 0, width |-> 0]

DetectImages == {Image(480, 640), Image(100, 100), Image(1400, 700), Image(1, 1)}

FaceBox(bx, by, bw, bh) == [x |-> bx, y |-> by, w |-> bw, h |-> bh]

\* face boxes inside the image
FaceBoxes(image) ==
    {b \in [x : {0, 250}, y : {0, 80}, w : {1, 24, 140}, h : {1, 50, 140}] :
        b.x + b.w <= image.width /\ b.y + b.h <= image.height}

RECURSIVE SeqsUpTo(_, _)
\* the sequences over S of length at most n
SeqsUpTo(S, n) ==
    IF n = 0 THEN {<<>>}
    ELSE LET shorter == SeqsUpTo(S, n - 1)
         IN shorter \cup {Append(s, e) : s \in shorter, e \in S}

\* a point given in whole pixels
Pt(px, py) == Point(px * PX, py * PX)

(***************************************************************************)
(* Direct calls of calculate_measurements, as the unit tests make them     *)
(***************************************************************************)

\* shoulder pairs are placed 0, 80, ..., 80 * MaxShoulderSteps pixels apart
MaxShoulderSteps == 8

ShoulderParts ==
    {EmptyDict, "LEFT_SHOULDER" :> Pt(280, 150),
     ("LEFT_SHOULDER" :> Pt(280, 150)) @@ ("RIGHT_SHOULDER" :> Pt(360, 210)),
     ("LEFT_SHOULDER" :> Pt(310, 150)) @@ ("RIGHT_SHOULDER" :> Pt(330, 150)),
     ("LEFT_SHOULDER" :> Pt(20, 150)) @@ ("RIGHT_SHOULDER" :> Pt(620, 150))}
    \cup {("LEFT_SHOULDER" :> Pt(320 - 40 * k, 150)) @@
          ("RIGHT_SHOULDER" :> Pt(320 + 40 * k, 150)) : k \in 0..MaxShoulderSteps}

HipParts ==
    {EmptyDict}
    \cup {("LEFT_HIP" :> Pt(320 - half, 300)) @@ ("RIGHT_HIP" :> Pt(320 + half, 300)) :
            half \in {0, 30, 100, 200, 280}}

NoseParts == {EmptyDict, "NOSE" :> Pt(320, 80)}

AnkleParts ==
    {EmptyDict, "LEFT_ANKLE" :> Pt(280, 480),
     ("LEFT_ANKLE" :> Pt(280, 480)) @@ ("RIGHT_ANKLE" :> Pt(360, 480))}

WristParts ==
    {EmptyDict, "RIGHT_WRIST" :> Pt(390, 250),
     ("LEFT_WRIST" :> Pt(250, 250)) @@ ("RIGHT_WRIST" :> Pt(390, 250)),
     "LEFT_WRIST" :> Pt(105, 192),
     ("LEFT_WRIST" :> Pt(250, 250)) @@ ("RIGHT_WRIST" :> Pt(390, 330))}

\* the landmark dictionaries passed to calculate_measurements
MeasureLandmarks ==
    {sh @@ hp @@ no @@ an @@ wr :
        sh \in ShoulderParts, hp \in HipParts, no \in NoseParts,
        an \in AnkleParts, wr \in WristParts}

\* image_shape arguments: a falsy shape, and (height, width) tuples
NoShape == [given |-> FALSE, height |-> 0]

Shape(h) == [given |-> TRUE, height |-> h]

MeasureShapes == {NoShape} \cup {Shape(h) : h \in {30, 480, 4000}}

\* scale arguments of direct calls of the _calculate_* helpers: 1, 2, 7/3
\* and 10 pixels per centimetre (the tests pass 10.0)
DirectScales == {Rat(1000, 1), Rat(2000, 1), Rat(7000, 3), Rat(10000, 1)}

(***************************************************************************)
(* Direct calls of validate_pose                                           *)
(***************************************************************************)

\* the right shoulder lies up to MaxTiltPixels pixels above or below the left
MaxTiltPixels == 12

\* the right shoulder, offset from a left shoulder at (280, 150)
PoseRightShoulders ==
    {Point(280 * PX + dx, 150 * PX + dy * PX) :
        dx \in {0, 4898, 4899, 48 * PX, 49 * PX, 80 * PX, 0 - 49 * PX},
        dy \in (0 - MaxTiltPixels)..MaxTiltPixels}

\* landmark dictionaries holding any subset of the required landmarks
PoseLandmarks ==
    {[k \in present |->
        CASE k = "LEFT_SHOULDER" -> Pt(280, 150)
          [] k = "RIGHT_SHOULDER" -> right
          [] k = "LEFT_HIP" -> Pt(290, 300)
          [] k = "RIGHT_HIP" -> Pt(350, 300)] :
        present \in SUBSET RequiredLandmarks, right \in PoseRightShoulders}

(***************************************************************************)
(* Direct calls of predict_sizes                                           *)
(***************************************************************************)

\* the values a measurement takes in the dictionaries passed to
\* predict_sizes, in tenths of a centimetre; -1 stands for an absent key
PredictValues ==
    [height |-> {-1, 1700},
     shoulder_width |-> {-1, 400, 450, 790},
     chest_circumference |-> {-1, 950, 952, 1490},
     waist_circumference |-> {-1, 702, 800},
     hip_circumference |-> {-1, 1000, 1008, 1100},
     arm_length |-> {-1, 0, 522, 620, 800}]

\* the dictionary of the keys given a value
PresentKeys(choice) == [k \in {n \in DOMAIN choice : choice[n] >= 0} |-> choice[k]]

PredictMeasurements ==
    {PresentKeys([height |-> h, shoulder_width |-> sw, chest_circumference |-> ch,
                  waist_circumference |-> wa, hip_circumference |-> hi,
                  arm_length |-> ar]) :
        h \in PredictValues.height, sw \in PredictValues.shoulder_width,
        ch \in PredictValues.chest_circumference,
        wa \in PredictValues.waist_circumference,
        hi \in PredictValues.hip_circumference, ar \in PredictValues.arm_length}

(***************************************************************************)
(* Direct calls of _find_best_size_match and _calculate_fit_score          *)
(***************************************************************************)

\* the largest number of rows of a chart passed to _find_best_size_match
MaxRows == 2

\* the measurement vector of the worked example, in tenths of a centimetre
ExampleRow ==
    [chest |-> 950, waist |-> 800, hip |-> 1000, shoulder |-> 450,
     arm_length |-> 620, inseam |-> 800]

\* the rows a chart is built from
MatchRows ==
    {ExampleRow,
     [k \in DOMAIN ExampleRow |-> ExampleRow[k] + 50],
     [chest |-> 950, waist |-> 850],
     [chest |-> 1000, waist |-> 800, hip |-> 1000, shoulder |-> 400,
      arm_length |-> 620, inseam |-> 800],
     [chest |-> 0, waist |-> 800]}

\* the key sets of the vectors the four predictions pass, of the tests'
\* vector, and of a vector with a key that has no weight of its own
MatchKeySets ==
    {{"chest", "shoulder"}, {"waist", "hip"}, {"chest", "waist", "hip"},
     {"chest", "shoulder", "arm_length"}, {"chest", "waist"}, {"chest", "inseam"}}

\* user vectors: the example values, all of them 5 cm larger, or only the
\* last key 5 cm larger
MatchMeasurements ==
    UNION {{[k \in keys |-> ExampleRow[k]],
            [k \in keys |-> ExampleRow[k] + 50],
            [k \in keys |-> IF k \in {"shoulder", "hip", "waist", "inseam"}
                            THEN ExampleRow[k] + 50 ELSE ExampleRow[k]]} :
           keys \in MatchKeySets}

\* charts of up to MaxRows rows, named S, M, L, ... in dict order
MatchSizes == <<"S", "M", "L", "XL", "XXL">>

MatchCharts ==
    {[i \in 1..Len(rows) |-> [size |-> MatchSizes[i], row |-> rows[i]]] :
        rows \in SeqsUpTo(MatchRows, MaxRows)}
    \cup {get_tops_chart, get_bottoms_chart}

(***************************************************************************)
(* ImageProcessor (src/app/utils/image_processor.py) and the requests      *)
(* served by process_image (src/app/main.py)                               *)
(***************************************************************************)

\* _validate_image: at least min_resolution = (100, 100)
validate_image(upload) == upload.height >= 100 /\ upload.width >= 100

\* the shape _resize_image resizes to: int(640 / aspect_ratio) and
\* int(480 * aspect_ratio) are the floors of the exact quotients for the
\* uploads served here
\* a _resize_image that hands the upload on as it is
ResizeSkipped(upload) == upload

resize_image(upload) ==
    LET new_width == IF upload.width > upload.height THEN 640
                     ELSE (480 * upload.width) \div upload.height
        new_height == IF upload.width > upload.height
                      THEN (640 * upload.height) \div upload.width
                      ELSE 480
    IN Image(Max(new_height, 100), Max(new_width, 100))

\* the number of requests process_image serves
NumRequests == 2

Requests == 1..NumRequests

\* what cv2.imread yields for the uploaded files: None, or an image of
\* 50x50, 1250x1000 (landscape) or 3000x4000 (portrait) pixels, width x
\* height
Uploads == {InvalidImage, Image(50, 50), Image(1000, 1250), Image(4000, 3000)}

\* a face a quarter of the image wide, centred horizontally in the upper part
CentredFace(processed) ==
    FaceBox((3 * processed.width) \div 8, processed.height \div 8,
            processed.width \div 4, processed.width \div 4)

\* the faces the cascade may report in a processed image: none, or one
PipelineFaces(processed) == {<<>>, <<CentredFace(processed)>>}

VARIABLES
    r_pc,              \* process_image of each request: the step reached
    r_image,           \* image = cv2.imread(image_path)
    r_processed,       \* processed_image
    r_faces,           \* the faces the cascade reported in processed_image
    r_landmarks,       \* landmarks
    r_scale,           \* the scale factor calculate_measurements found
    r_measurements,    \* measurements
    r_recommendations, \* size_recommendations
    r_result,          \* the dictionary process_image returned
    r_error,           \* the message of the exception it raised
    r_interleaved,     \* another request ran detect_landmarks between this
                       \* request's detect_landmarks and get_confidence_score
    p_landmarks,       \* validate_pose: the landmarks argument
    p_valid,           \* the value validate_pose returned
    p_pc,              \* "ready" before the call, "returned" after it
    s_measurements,    \* predict_sizes: the measurements argument
    s_predictions,     \* the dictionary predict_sizes returned
    s_pc,              \* "ready" before the call, "returned" after it
    size_charts,       \* the tables the SizeCharts of the predictor holds
    f_measurements,    \* _find_best_size_match: the measurements argument
    f_chart,           \* its size_chart argument
    f_primary,         \* its primary_measurement argument
    f_match,           \* the value _find_best_size_match returned
    f_row,             \* the chart entry a direct _calculate_fit_score call used
    f_score,           \* the value _calculate_fit_score returned
    f_confidence,      \* _calculate_confidence of that score
    f_pc,              \* "ready", then "matched" or "scored"
    d_image,           \* detect_landmarks: the image argument
    d_faces,           \* what face_cascade.detectMultiScale reports for it
    d_result,          \* the value detect_landmarks returned
    d_pc,              \* "ready" before the call, "returned" after it
    last_confidence,   \* BodyDetector._last_confidence, in tenths
    m_landmarks,       \* calculate_measurements: the landmarks argument
    m_shape,           \* calculate_measurements: the image_shape argument
    m_scale,           \* its local scale_factor (line 51)
    m_result,          \* the dictionary it returned
    m_pc               \* "ready" before the call, "returned" after
                       \* calculate_measurements, "derived" after the helpers

detectVars == <<d_image, d_faces, d_result, d_pc, last_confidence>>

measureVars == <<m_landmarks, m_shape, m_scale, m_result, m_pc>>

poseVars == <<p_landmarks, p_valid, p_pc>>

predictVars == <<s_measurements, s_predictions, s_pc, size_charts>>

matchVars == <<f_measurements, f_chart, f_primary, f_match, f_row, f_score,
               f_confidence, f_pc>>

requestVars == <<r_pc, r_image, r_processed, r_faces, r_landmarks, r_scale, r_measurements,
                 r_recommendations, r_result, r_error, r_interleaved>>

vars == <<detectVars, measureVars, poseVars, predictVars, matchVars, requestVars>>

\* no direct detect_landmarks call is under way
DetectIdle ==
    /\ d_image = InvalidImage
    /\ d_faces = <<>>
    /\ d_result = None
    /\ d_pc = "idle"
    /\ last_confidence = 0

\* no direct calculate_measurements call is under way
MeasureIdle ==
    /\ m_landmarks = EmptyDict
    /\ m_shape = NoShape
    /\ m_scale = None
    /\ m_result = EmptyDict
    /\ m_pc = "idle"

\* no direct validate_pose call is under way
PoseIdle ==
    /\ p_landmarks = EmptyDict
    /\ p_valid = FALSE
    /\ p_pc = "idle"

\* no direct predict_sizes call is under way
PredictIdle ==
    /\ s_measurements = EmptyDict
    /\ s_predictions = EmptyDict
    /\ s_pc = "idle"
    /\ size_charts = initialize_charts

\* no direct call of the matcher is under way
MatchIdle ==
    /\ f_measurements = EmptyDict
    /\ f_chart = <<>>
    /\ f_primary = "chest"
    /\ f_match = None
    /\ f_row = 0
    /\ f_score = Infinite
    /\ f_confidence = Q(0, 1)
    /\ f_pc = "idle"

\* the locals of process_image before a request has set them
RequestLocalsUnset ==
    /\ r_image = [r \in Requests |-> InvalidImage]
    /\ r_processed = [r \in Requests |-> InvalidImage]
    /\ r_faces = [r \in Requests |-> <<>>]
    /\ r_landmarks = [r \in Requests |-> None]
    /\ r_scale = [r \in Requests |-> None]
    /\ r_measurements = [r \in Requests |-> EmptyDict]
    /\ r_recommendations = [r \in Requests |-> EmptyDict]
    /\ r_result = [r \in Requests |-> None]
    /\ r_error = [r \in Requests |-> ""]
    /\ r_interleaved = [r \in Requests |-> FALSE]

\* no request is served
RequestsIdle ==
    /\ r_pc = [r \in Requests |-> "idle"]
    /\ RequestLocalsUnset

DetectInit ==
    /\ d_image \in DetectImages \cup {InvalidImage}
    /\ d_faces \in (IF d_image.valid THEN SeqsUpTo(FaceBoxes(d_image), MaxFaces)
                    ELSE {<<>>})
    /\ d_result = None
    /\ d_pc = "ready"
    /\ last_confidence = 0
    /\ MeasureIdle
    /\ PoseIdle
    /\ PredictIdle
    /\ MatchIdle
    /\ RequestsIdle

DetectCall ==
    /\ d_pc = "ready"
    /\ d_result' = detect_landmarks(d_image, d_faces)
    /\ last_confidence' = ConfidenceAfter(last_confidence, d_result')
    /\ d_pc' = "returned"
    /\ UNCHANGED <<d_image, d_faces>>
    /\ UNCHANGED <<measureVars, poseVars, predictVars, matchVars, requestVars>>

SpecDetect == DetectInit /\ [][DetectCall]_vars

MeasureInit ==
    /\ m_landmarks \in MeasureLandmarks
    /\ m_shape \in MeasureShapes
    /\ m_scale = None
    /\ m_result = EmptyDict
    /\ m_pc = "ready"
    /\ DetectIdle
    /\ PoseIdle
    /\ PredictIdle
    /\ MatchIdle
    /\ RequestsIdle

MeasureCall ==
    /\ m_pc = "ready"
    /\ m_scale' = calculate_scale_factor(m_landmarks, m_shape)
    /\ m_result' = calculate_measurements(m_landmarks, m_shape)
    /\ m_pc' = "returned"
    /\ UNCHANGED <<m_landmarks, m_shape>>
    /\ UNCHANGED <<detectVars, poseVars, predictVars, matchVars, requestVars>>

\* the six _calculate_* helpers called with one scale factor, as the tests
\* call them; they take no image_shape
HelpersCall ==
    /\ m_pc = "ready"
    /\ m_shape = NoShape
    /\ \E scale \in DirectScales :
         /\ m_scale' = Some(scale)
         /\ m_result' = DeriveMeasurements(m_landmarks, scale)
    /\ m_pc' = "derived"
    /\ UNCHANGED <<m_landmarks, m_shape>>
    /\ UNCHANGED <<detectVars, poseVars, predictVars, matchVars, requestVars>>

MeasureNext == MeasureCall \/ HelpersCall

SpecMeasure == MeasureInit /\ [][MeasureNext]_vars

PoseInit ==
    /\ p_landmarks \in PoseLandmarks
    /\ p_valid = FALSE
    /\ p_pc = "ready"
    /\ DetectIdle
    /\ MeasureIdle
    /\ PredictIdle
    /\ MatchIdle
    /\ RequestsIdle

PoseCall ==
    /\ p_pc = "ready"
    /\ p_valid' = validate_pose(p_landmarks)
    /\ p_pc' = "returned"
    /\ UNCHANGED p_landmarks
    /\ UNCHANGED <<detectVars, measureVars, predictVars, matchVars, requestVars>>

SpecPose == PoseInit /\ [][PoseCall]_vars

PredictInit ==
    /\ s_measurements \in PredictMeasurements
    /\ s_predictions = EmptyDict
    /\ s_pc = "ready"
    /\ size_charts = initialize_charts
    /\ DetectIdle
    /\ MeasureIdle
    /\ PoseIdle
    /\ MatchIdle
    /\ RequestsIdle

PredictCall ==
    /\ s_pc = "ready"
    /\ s_predictions' = predict_sizes(s_measurements)
    /\ size_charts' = ChartsAfterPrediction(size_charts, s_measurements)
    /\ s_pc' = "returned"
    /\ UNCHANGED s_measurements
    /\ UNCHANGED <<detectVars, measureVars, poseVars, matchVars, requestVars>>

SpecPredict == PredictInit /\ [][PredictCall]_vars

MatchInit ==
    /\ f_measurements \in MatchMeasurements
    /\ f_chart \in MatchCharts
    /\ f_primary \in {"chest", "waist"}
    /\ f_match = None
    /\ f_row = 0
    /\ f_score = Infinite
    /\ f_confidence = Q(0, 1)
    /\ f_pc = "ready"
    /\ DetectIdle
    /\ MeasureIdle
    /\ PoseIdle
    /\ PredictIdle
    /\ RequestsIdle

\* _find_best_size_match(f_measurements, f_chart, f_primary)
MatchCall ==
    /\ f_pc = "ready"
    /\ f_match' = find_best_size_match(f_measurements, f_chart, f_primary)
    /\ f_pc' = "matched"
    /\ UNCHANGED <<f_measurements, f_chart, f_primary, f_row, f_score, f_confidence>>
    /\ UNCHANGED <<detectVars, measureVars, poseVars, predictVars, requestVars>>

\* _calculate_fit_score of the vector against one row of the chart, and
\* _calculate_confidence of the score
ScoreCall ==
    /\ f_pc = "ready"
    /\ \E i \in 1..Len(f_chart) :
         /\ f_row' = i
         /\ f_score' = calculate_fit_score(f_measurements, f_chart[i].row)
    /\ f_confidence' = calculate_confidence(f_score')
    /\ f_pc' = "scored"
    /\ UNCHANGED <<f_measurements, f_chart, f_primary, f_match>>
    /\ UNCHANGED <<detectVars, measureVars, poseVars, predictVars, requestVars>>

MatchNext == MatchCall \/ ScoreCall

SpecMatch == MatchInit /\ [][MatchNext]_vars

(***************************************************************************)
(* Direct calls of _calculate_confidence                                   *)
(***************************************************************************)

\* the largest finite fit score converted, in thousandths
MaxScoreThousandths == 1100

\* the fit scores converted: 0.000, 0.001, ... and float('inf')
ConfidenceScores ==
    {Finite(Big(n), Big(1000)) : n \in 0..MaxScoreThousandths} \cup {Infinite}

ConfidenceInit ==
    /\ f_score \in ConfidenceScores
    /\ f_measurements = EmptyDict
    /\ f_chart = <<>>
    /\ f_primary = "chest"
    /\ f_match = None
    /\ f_row = 0
    /\ f_confidence = Q(0, 1)
    /\ f_pc = "score"
    /\ DetectIdle
    /\ MeasureIdle
    /\ PoseIdle
    /\ PredictIdle
    /\ RequestsIdle

\* _calculate_confidence(f_score)
ConfidenceCall ==
    /\ f_pc = "score"
    /\ f_confidence' = calculate_confidence(f_score)
    /\ f_pc' = "converted"
    /\ UNCHANGED <<f_measurements, f_chart, f_primary, f_match, f_row, f_score>>
    /\ UNCHANGED <<detectVars, measureVars, poseVars, predictVars, requestVars>>

SpecConfidence == ConfidenceInit /\ [][ConfidenceCall]_vars

(***************************************************************************)
(* process_image for NumRequests requests sharing the module-level         *)
(* body_detector; the requests interleave between the calls they make      *)
(***************************************************************************)

Init ==
    /\ r_pc = [r \in Requests |-> "start"]
    /\ RequestLocalsUnset
    /\ d_image = InvalidImage
    /\ d_faces = <<>>
    /\ d_result = None
    /\ d_pc = "idle"
    /\ last_confidence = 0
    /\ MeasureIdle
    /\ PoseIdle
    /\ PredictIdle
    /\ MatchIdle

\* the variables the requests leave alone
DirectCallVars ==
    <<d_image, d_faces, d_result, d_pc, measureVars, poseVars, predictVars, matchVars>>

\* `raise ValueError(message)`: the request ends without a result
Raise(r, message) ==
    /\ r_pc' = [r_pc EXCEPT ![r] = "failed"]
    /\ r_error' = [r_error EXCEPT ![r] = message]

\* image = cv2.imread(image_path); None raises
LoadImage(r) ==
    /\ r_pc[r] = "start"
    /\ \E upload \in Uploads :
         IF upload.valid
         THEN /\ r_image' = [r_image EXCEPT ![r] = upload]
              /\ r_pc' = [r_pc EXCEPT ![r] = "loaded"]
              /\ UNCHANGED r_error
         ELSE /\ Raise(r, "Could not load image")
              /\ UNCHANGED r_image
    /\ UNCHANGED <<r_processed, r_landmarks, r_scale, r_measurements,
                   r_recommendations, r_result, r_interleaved, r_faces,
                   last_confidence>>
    /\ UNCHANGED DirectCallVars

\* processed_image = image_processor.preprocess(image)
Preprocess(r) ==
    /\ r_pc[r] = "loaded"
    /\ IF validate_image(r_image[r])
       THEN /\ r_processed' = [r_processed EXCEPT ![r] = resize_image(r_image[r])]
            /\ r_pc' = [r_pc EXCEPT ![r] = "preprocessed"]
            /\ UNCHANGED r_error
       ELSE /\ Raise(r, "Invalid image format or size")
            /\ UNCHANGED r_processed
    /\ UNCHANGED <<r_image, r_landmarks, r_scale, r_measurements,
                   r_recommendations, r_result, r_interleaved, r_faces,
                   last_confidence>>
    /\ UNCHANGED DirectCallVars

\* the requests that have run detect_landmarks and not yet get_confidence_score
AwaitingConfidence == {q \in Requests : r_pc[q] \in {"detected", "measured", "predicted"}}

\* landmarks = body_detector.detect_landmarks(processed_image); None raises
DetectLandmarks(r) ==
    /\ r_pc[r] = "preprocessed"
    /\ \E faces \in PipelineFaces(r_processed[r]) :
         LET found == detect_landmarks(r_processed[r], faces)
         IN /\ r_faces' = [r_faces EXCEPT ![r] = faces]
            /\ last_confidence' = ConfidenceAfter(last_confidence, found)
            /\ IF found.some
               THEN /\ r_landmarks' = [r_landmarks EXCEPT ![r] = found]
                    /\ r_pc' = [r_pc EXCEPT ![r] = "detected"]
                    /\ UNCHANGED r_error
               ELSE /\ Raise(r, "No person detected in image")
                    /\ UNCHANGED r_landmarks
    /\ r_interleaved' = [q \in Requests |->
                            IF q \in AwaitingConfidence THEN TRUE
                            ELSE r_interleaved[q]]
    /\ UNCHANGED <<r_image, r_processed, r_scale, r_measurements,
                   r_recommendations, r_result>>
    /\ UNCHANGED DirectCallVars

\* measurements = measurement_calculator.calculate_measurements(
\*     landmarks, processed_image.shape)
CalculateMeasurements(r) ==
    /\ r_pc[r] = "detected"
    /\ r_scale' = [r_scale EXCEPT ![r] =
           calculate_scale_factor(r_landmarks[r].val, Shape(r_processed[r].height))]
    /\ r_measurements' = [r_measurements EXCEPT ![r] =
           calculate_measurements(r_landmarks[r].val, Shape(r_processed[r].height))]
    /\ r_pc' = [r_pc EXCEPT ![r] = "measured"]
    /\ UNCHANGED <<r_image, r_processed, r_landmarks, r_recommendations, r_result,
                   r_error, r_interleaved, r_faces,
                   last_confidence>>
    /\ UNCHANGED DirectCallVars

\* size_recommendations = size_predictor.predict_sizes(measurements)
PredictSizes(r) ==
    /\ r_pc[r] = "measured"
    /\ r_recommendations' = [r_recommendations EXCEPT ![r] =
           predict_sizes(r_measurements[r])]
    /\ size_charts' = ChartsAfterPrediction(size_charts, r_measurements[r])
    /\ r_pc' = [r_pc EXCEPT ![r] = "predicted"]
    /\ UNCHANGED <<r_image, r_processed, r_landmarks, r_scale, r_measurements,
                   r_result, r_error, r_interleaved, r_faces,
                   last_confidence>>
    /\ UNCHANGED <<d_image, d_faces, d_result, d_pc, measureVars, poseVars, matchVars,
                   s_measurements, s_predictions, s_pc>>

\* confidence = body_detector.get_confidence_score() and the returned dict
ReturnResult(r) ==
    /\ r_pc[r] = "predicted"
    /\ r_result' = [r_result EXCEPT ![r] =
           Some([measurements |-> r_measurements[r],
                 size_recommendations |-> r_recommendations[r],
                 confidence |-> last_confidence,
                 status |-> "success"])]
    /\ r_pc' = [r_pc EXCEPT ![r] = "done"]
    /\ UNCHANGED <<r_image, r_processed, r_landmarks, r_scale, r_measurements,
                   r_recommendations, r_error, r_interleaved, r_faces,
                   last_confidence>>
    /\ UNCHANGED DirectCallVars

\* the handler that received the result or the exception serves its next
\* upload: process_image starts again with fresh locals, on the same
\* body_detector
NextUpload(r) ==
    /\ r_pc[r] \in {"done", "failed"}
    /\ r_pc' = [r_pc EXCEPT ![r] = "start"]
    /\ r_image' = [r_image EXCEPT ![r] = InvalidImage]
    /\ r_processed' = [r_processed EXCEPT ![r] = InvalidImage]
    /\ r_faces' = [r_faces EXCEPT ![r] = <<>>]
    /\ r_landmarks' = [r_landmarks EXCEPT ![r] = None]
    /\ r_scale' = [r_scale EXCEPT ![r] = None]
    /\ r_measurements' = [r_measurements EXCEPT ![r] = EmptyDict]
    /\ r_recommendations' = [r_recommendations EXCEPT ![r] = EmptyDict]
    /\ r_result' = [r_result EXCEPT ![r] = None]
    /\ r_error' = [r_error EXCEPT ![r] = ""]
    /\ r_interleaved' = [r_interleaved EXCEPT ![r] = FALSE]
    /\ UNCHANGED last_confidence
    /\ UNCHANGED DirectCallVars

Next ==
    \E r \in Requests :
        \/ LoadImage(r)
        \/ Preprocess(r)
        \/ DetectLandmarks(r)
        \/ CalculateMeasurements(r)
        \/ PredictSizes(r)
        \/ ReturnResult(r)
        \/ NextUpload(r)

Spec == Init /\ [][Next]_vars

\* preprocess when cv2.resize raises inside _resize_image: the except branch
\* returns the image as it was loaded
PreprocessResizeRaised(r) ==
    /\ r_pc[r] = "loaded"
    /\ validate_image(r_image[r])
    /\ r_processed' = [r_processed EXCEPT ![r] = r_image[r]]
    /\ r_pc' = [r_pc EXCEPT ![r] = "preprocessed"]
    /\ UNCHANGED <<r_image, r_landmarks, r_scale, r_measurements, r_recommendations,
                   r_result, r_error, r_interleaved, r_faces,
                   last_confidence>>
    /\ UNCHANGED DirectCallVars

NextResizeFault == Next \/ \E r \in Requests : PreprocessResizeRaised(r)

\* the requests served when cv2.resize may raise
SpecResizeFault == Init /\ [][NextResizeFault]_vars

\* the call returned landmarks for a face found in a valid image
DetectReturnedLandmarks ==
    d_pc = "returned" /\ d_image.valid /\ Len(d_faces) > 0

\* C1: for every face box inside a width x height image, detect_landmarks
\* returns exactly the 13 named landmarks, each with 0 <= x < width and
\* 0 <= y < height.
C1_ThirteenLandmarksInBounds ==
    DetectReturnedLandmarks =>
        /\ d_result.some
        /\ DOMAIN d_result.val =
              {"NOSE"} \cup {side \o "_" \o part :
                                side \in {"LEFT", "RIGHT"},
                                part \in {"SHOULDER", "ELBOW", "WRIST", "HIP",
                                          "KNEE", "ANKLE"}}
        /\ Cardinality(DOMAIN d_result.val) = 13
        /\ \A n \in DOMAIN d_result.val :
              /\ 0 <= d_result.val[n].x /\ d_result.val[n].x < d_image.width * PX
              /\ 0 <= d_result.val[n].y /\ d_result.val[n].y < d_image.height * PX

\* C1 witness: landmarks were returned with the ankles clamped to the last row
\* and an elbow clamped to the first column
C1_Witness ==
    /\ DetectReturnedLandmarks
    /\ d_result.some
    /\ d_result.val["LEFT_ANKLE"].y = (d_image.height - 1) * PX
    /\ d_result.val["LEFT_ELBOW"].x = 0
    /\ EstimateLandmarks(LargestFace(d_faces))["LEFT_ANKLE"].y > d_image.height * PX
    /\ EstimateLandmarks(LargestFace(d_faces))["LEFT_ELBOW"].x < 0

\* the fixture of C2: face box (250, 80, 140, 140) as the largest face of a
\* 700 x 1400 image, in which no landmark is clamped
C2_Fixture ==
    /\ d_pc = "returned"
    /\ d_image = Image(1400, 700)
    /\ Len(d_faces) > 0
    /\ LargestFace(d_faces) = FaceBox(250, 80, 140, 140)

\* C2 as stated: the fixture yields LEFT_SHOULDER = (141.8, 253.6) and
\* RIGHT_SHOULDER = (429.2, 253.6), the shoulders placed at
\* cx -/+ shoulderWidth/2 without integer truncation.
C2_Original ==
    C2_Fixture =>
        /\ d_result.some
        /\ d_result.val["LEFT_SHOULDER"] = Point(141800, 253600)
        /\ d_result.val["RIGHT_SHOULDER"] = Point(429200, 253600)

\* C2 amended: the fixture yields headHeight = 168, shoulderWidth = 218.4,
\* shoulderY = 253.6, and the shoulders at cx -/+ floor(shoulderWidth / 2)
\* with cx = 320: LEFT_SHOULDER = (211.0, 253.6), RIGHT_SHOULDER = (429.0, 253.6).
C2_FixtureShoulders ==
    C2_Fixture =>
        /\ HeadHeight(140 * PX) = 168000
        /\ ShoulderWidth(140 * PX) = 218400
        /\ d_result.some
        /\ d_result.val["LEFT_SHOULDER"] = Point(211000, 253600)
        /\ d_result.val["RIGHT_SHOULDER"] = Point(429000, 253600)
        /\ d_result.val = EstimateLandmarks(FaceBox(250, 80, 140, 140))

\* C2 witness: the fixture was analysed, with a second, smaller face reported
C2_Witness == C2_Fixture /\ d_result.some /\ Len(d_faces) = 2
\* the shoulder candidate of the landmarks is present and accepted
ShoulderAccepted(landmarks) ==
    /\ {"LEFT_SHOULDER", "RIGHT_SHOULDER"} \subseteq DOMAIN landmarks
    /\ 20 * PX <= ShoulderPixels(landmarks)
    /\ ShoulderPixels(landmarks) <= 600 * PX

\* the hip candidate of the landmarks is present and accepted
HipAccepted(landmarks) ==
    /\ {"LEFT_HIP", "RIGHT_HIP"} \subseteq DOMAIN landmarks
    /\ 18 * PX <= HipPixels(landmarks)
    /\ HipPixels(landmarks) <= 540 * PX

\* the image-height candidate is present and accepted:
\* 0.3 <= 0.85 * height / 165 <= 20
ImageHeightAccepted(image_shape) ==
    /\ image_shape.given
    /\ 3 * 1650 <= 85 * image_shape.height
    /\ 85 * image_shape.height <= 200 * 1650

\* the scale equals pixels / cm, pixels given in milli-pixels
ScaleIs(scale, pixels, cm) == scale.some /\ scale.val.n * cm = pixels * scale.val.d

HalfOf(raw2, raw1) ==
    /\ raw2.c = 2 * raw1.c
    /\ 2 * raw2.q + (raw2.r \div raw1.c) = raw1.q
    /\ raw2.r % raw1.c = raw1.r

Double(scale) == Rat(2 * scale.n, scale.d)

\* the measurements derived from the current landmarks at twice the scale
AtDoubleScale == DeriveMeasurements(m_landmarks, Double(m_scale.val))

MeasuredWithScale == m_pc \in {"returned", "derived"} /\ m_scale.some

\* C8 as stated: for fixed landmarks every measurement returned at scale 2s
\* is half the same measurement returned at scale s.
C8_Original ==
    MeasuredWithScale =>
        \A k \in DOMAIN m_result \cap DOMAIN AtDoubleScale :
            2 * AtDoubleScale[k] = m_result[k]

\* the left arm passes its window at both scales or at neither, so that
\* _calculate_arm_length measures the same arm at both
SameArmMeasured(landmarks, scale) ==
    ArmValid(landmarks, "LEFT", scale) <=> ArmValid(landmarks, "LEFT", Double(scale))

\* C8: for fixed landmarks, doubling the scale halves every centimetre value
\* before its window check and rounding; a measurement returned at both
\* scales is, at scale 2s, within 0.05 cm of half its value at scale s,
\* the arm length provided the same arm is measured at both scales.
C8_HalvesUpToRounding ==
    MeasuredWithScale =>
        LET s == m_scale.val
            l == m_landmarks
            doubled == AtDoubleScale
        IN /\ \A k \in DOMAIN m_result \cap DOMAIN doubled :
                 (k = "arm_length" => SameArmMeasured(l, s)) =>
                     Abs(2 * doubled[k] - m_result[k]) <= 1
           /\ {"LEFT_SHOULDER", "RIGHT_SHOULDER"} \subseteq DOMAIN l =>
                 /\ HalfOf(ShoulderWidthRaw(l, Double(s)), ShoulderWidthRaw(l, s))
                 /\ HalfOf(ChestRaw(l, Double(s)), ChestRaw(l, s))
           /\ {"LEFT_HIP", "RIGHT_HIP"} \subseteq DOMAIN l =>
                 /\ HalfOf(WaistRaw(l, Double(s)), WaistRaw(l, s))
                 /\ HalfOf(HipRaw(l, Double(s)), HipRaw(l, s))
           /\ ("NOSE" \in DOMAIN l /\ "LEFT_ANKLE" \in DOMAIN l) =>
                 HalfOf(HeightRaw(l, Double(s)), HeightRaw(l, s))
           /\ \A side \in {"LEFT", "RIGHT"} :
                 ArmPresent(l, side) =>
                     HalfOf(ArmRaw(l, side, Double(s)), ArmRaw(l, side, s))

\* C8 witness: a shoulder width returned at both scales whose value at the
\* doubled scale is not half of the value at the single scale
C8_Witness ==
    /\ MeasuredWithScale
    /\ "shoulder_width" \in DOMAIN m_result \cap DOMAIN AtDoubleScale
    /\ 2 * AtDoubleScale["shoulder_width"] # m_result["shoulder_width"]

\* the vertical gap between the shoulders exceeds 20% of their distance:
\* 25 * dy^2 > dx^2 + dy^2
GapExceedsFifth(left, right) ==
    ~ProdLeq(24 * Abs(left.y - right.y), Abs(left.y - right.y),
             Abs(left.x - right.x), Abs(left.x - right.x))

ExactRow(user, row) ==
    DOMAIN user \subseteq DOMAIN row /\ \A k \in DOMAIN user : row[k] = user[k]

\* the row shares a key with the user and agrees on every shared key
Agrees(user, row) ==
    /\ DOMAIN user \cap DOMAIN row # {}
    /\ \A k \in DOMAIN user \cap DOMAIN row : row[k] = user[k]

\* C6: when one row of the chart has exactly the user's values, the matcher
\* returns a size with confidence 0.95 whenever the vector holds the primary
\* key (as the vectors of all four categories do): the size of that row when
\* no other row agrees with the user, and in general the first row of the
\* chart that agrees with the user on every shared key.
C6_ExactRowMatched ==
    (f_pc = "matched" /\ f_primary \in DOMAIN f_measurements) =>
        \A i \in 1..Len(f_chart) :
            ExactRow(f_measurements, f_chart[i].row) =>
                /\ f_match.some
                /\ QEq(f_match.val.confidence, Q(95, 100))
                /\ \E j \in 1..i :
                     /\ f_match.val.size = f_chart[j].size
                     /\ Agrees(f_measurements, f_chart[j].row)
                     /\ \A h \in 1..(j - 1) : ~Agrees(f_measurements, f_chart[h].row)
                /\ (\A j \in 1..Len(f_chart) :
                        j # i => ~Agrees(f_measurements, f_chart[j].row))
                   => f_match.val.size = f_chart[i].size

\* C6 witness: the row M has exactly the user's chest, shoulder and arm
\* length, the row S before it does not, and M is returned
C6_Witness ==
    /\ f_pc = "matched"
    /\ DOMAIN f_measurements = {"chest", "shoulder", "arm_length"}
    /\ f_primary = "chest"
    /\ Len(f_chart) = 2
    /\ ExactRow(f_measurements, f_chart[2].row)
    /\ ~Agrees(f_measurements, f_chart[1].row)
    /\ DOMAIN f_measurements \subseteq DOMAIN f_chart[1].row
    /\ f_match.some
    /\ f_match.val.size = "M"

\* the weights the fit score is documented with, in fifths
DocumentedWeight ==
    [chest |-> 5, waist |-> 5, hip |-> 5, shoulder |-> 4, arm_length |-> 3,
     inseam |-> 5]

RECURSIVE MeanNumerator(_, _, _, _)
\* the sum over k in todo of weight * |user - chart| * product of the other
\* chart values: the weighted sum of |user - chart| / chart, times the
\* product of all chart values
MeanNumerator(todo, shared, user, row) ==
    IF todo = {} THEN <<>>
    ELSE LET k == CHOOSE x \in todo : TRUE
         IN BigAdd(BigScale(BigProduct(shared \ {k}, row),
                            DocumentedWeight[k] * Abs(user[k] - row[k])),
                   MeanNumerator(todo \ {k}, shared, user, row))

RECURSIVE WeightTotal(_)
WeightTotal(keys) ==
    IF keys = {} THEN 0
    ELSE LET k == CHOOSE x \in keys : TRUE
         IN DocumentedWeight[k] + WeightTotal(keys \ {k})

\* C7: the fit score is the weighted mean of |user - chart| / chart over the
\* keys present in both vectors, with weights chest 1.0, waist 1.0, hip 1.0,
\* shoulder 0.8, arm_length 0.6 and 1.0 for any other key; a user equal to the
\* row on every shared key scores 0.0 with confidence 0.95, and a differing
\* value on a shared key gives a score strictly greater than 0.
C7_WeightedMean ==
    f_pc = "scored" =>
        LET user == f_measurements
            row == f_chart[f_row].row
            shared == DOMAIN user \cap DOMAIN row
        IN (shared # {} /\ \A k \in shared : row[k] > 0) =>
              /\ ~f_score.inf
              /\ QEq(f_score,
                     [num |-> MeanNumerator(shared, shared, user, row),
                      den |-> BigScale(BigProduct(shared, row), WeightTotal(shared))])
              /\ (\A k \in shared : user[k] = row[k]) =>
                    /\ f_score.num = Big(0)
                    /\ QEq(f_confidence, Q(95, 100))
              /\ (\E k \in shared : user[k] # row[k]) => QLess(Q(0, 1), f_score)

\* C7 witness: a user who differs from the row by 5 cm of shoulder width
\* only, scored above 0
C7_Witness ==
    /\ f_pc = "scored"
    /\ DOMAIN f_measurements = {"chest", "shoulder"}
    /\ DOMAIN f_measurements \subseteq DOMAIN f_chart[f_row].row
    /\ f_measurements["chest"] = f_chart[f_row].row["chest"]
    /\ f_measurements["shoulder"] = f_chart[f_row].row["shoulder"] + 50
    /\ QLess(Q(0, 1), f_score)

\* the measurements each category asks for
RequiredFor ==
    [tops |-> {"chest_circumference", "shoulder_width"},
     outerwear |-> {"chest_circumference", "shoulder_width"},
     bottoms |-> {"waist_circumference", "hip_circumference"},
     dresses |-> {"chest_circumference", "waist_circumference", "hip_circumference"}]

\* the dictionary without one key
Without(measurements, key) ==
    [k \in DOMAIN measurements \ {key} |-> measurements[k]]

\* C10: predict_sizes reports a category exactly when all measurements the
\* category requires are present (tops and outerwear: chest and shoulder;
\* bottoms: waist and hip; dresses: chest, waist and hip); a category that
\* lacks one is left out of the report, and taking a required measurement
\* away leaves the prediction of every category that does not require it
\* unchanged.
C10_CategoriesByRequirement ==
    s_pc = "returned" =>
        /\ DOMAIN s_predictions \subseteq Categories
        /\ \A c \in Categories :
             c \in DOMAIN s_predictions <=> RequiredFor[c] \subseteq DOMAIN s_measurements
        /\ \A key \in DOMAIN s_measurements \cap UNION {RequiredFor[c] : c \in Categories} :
             LET fewer == predict_sizes(Without(s_measurements, key))
             IN \A c \in Categories :
                  /\ key \in RequiredFor[c] => c \notin DOMAIN fewer
                  /\ (key \notin RequiredFor[c] /\ c \in DOMAIN s_predictions) =>
                        (c \in DOMAIN fewer /\ fewer[c] = s_predictions[c])

\* C10 witness: without a shoulder width the report holds bottoms and dresses
\* and neither tops nor outerwear
C10_Witness ==
    /\ s_pc = "returned"
    /\ "shoulder_width" \notin DOMAIN s_measurements
    /\ "chest_circumference" \in DOMAIN s_measurements
    /\ DOMAIN s_predictions = {"bottoms", "dresses"}

\* C5: when one BodyDetector serves several requests whose steps interleave,
\* every request that returns a result reports the confidence 0.8 of its own
\* landmark estimation, whatever detect_landmarks calls of other requests ran
\* before its get_confidence_score.
C5_OwnConfidenceReported ==
    \A r \in Requests :
        r_pc[r] = "done" =>
            /\ r_result[r].some
            /\ r_result[r].val.status = "success"
            /\ r_result[r].val.confidence = 8

\* C5 witness: a request returned its result after another request's
\* detect_landmarks, which found no face, ran in between
C5_Witness ==
    \E r \in Requests, q \in Requests :
        /\ r # q
        /\ r_pc[r] = "done"
        /\ r_interleaved[r]
        /\ r_error[q] = "No person detected in image"
        /\ r_result[r].val.confidence = 8

\* C4: when no scale calibration candidate is accepted the request is aborted
\* with a failure: process_image returns no result, so a request that
\* returned 'success' had a scale factor.
C4_NoScaleReferenceAborts ==
    \A r \in Requests :
        (r_pc[r] \in {"measured", "predicted", "done"} /\ ~r_scale[r].some) =>
            /\ r_pc[r] # "done"
            /\ ~r_result[r].some

\* the chart each category is matched against
ChartOf ==
    [tops |-> get_tops_chart, bottoms |-> get_bottoms_chart,
     dresses |-> get_dresses_chart, outerwear |-> get_outerwear_chart]

\* the name calculate_measurements gives the measurement a chart key stands for
MeasurementOf ==
    [chest |-> "chest_circumference", waist |-> "waist_circumference",
     hip |-> "hip_circumference", shoulder |-> "shoulder_width",
     arm_length |-> "arm_length"]

\* the chart keys a category's score compares for these measurements
ComparedKeys(category, measurements) ==
    CASE category = "tops" -> {"chest", "shoulder"}
      [] category = "bottoms" -> {"waist", "hip"}
      [] category = "dresses" -> {"chest", "waist", "hip"}
      [] category = "outerwear" ->
            {"chest", "shoulder"} \cup
            (IF "arm_length" \in DOMAIN measurements /\ measurements["arm_length"] > 0
             THEN {"arm_length"} ELSE {})

\* the row of the chart with this size
RowOfSize(chart, size) ==
    chart[CHOOSE i \in 1..Len(chart) : chart[i].size = size].row

\* the list holds a deviation note of this direction for the measurement,
\* under its chart key or its measurement name
HasDeviationNote(fit_notes, key, direction) ==
    \E i \in 1..Len(fit_notes) :
        /\ fit_notes[i].measurement \in {key, MeasurementOf[key]}
        /\ fit_notes[i].text = direction

\* C11: for every measurement compared with the chosen chart row, a deviation
\* of more than 15% of the chart value gives a 'larger than average' or
\* 'smaller than average' note for that measurement in the category's fit
\* notes, and a deviation of 15% or less gives none.
C11_DeviationsNoted ==
    s_pc = "returned" =>
        \A c \in DOMAIN s_predictions :
            LET row == RowOfSize(ChartOf[c], s_predictions[c].size)
                fit_notes == s_predictions[c].fit_notes
            IN \A k \in ComparedKeys(c, s_measurements) \cap DOMAIN row :
                 LET user == s_measurements[MeasurementOf[k]]
                 IN /\ (100 * (user - row[k]) > 15 * row[k]) <=>
                           HasDeviationNote(fit_notes, k,
                                            "larger than average for this size")
                    /\ (100 * (row[k] - user) > 15 * row[k]) <=>
                           HasDeviationNote(fit_notes, k,
                                            "smaller than average for this size")

\* score1 <= score2, float('inf') included
NotAbove(score1, score2) == score2.inf \/ (~score1.inf /\ QLeq(score1, score2))

\* the fit score of each row of the chart matched
RowScores == [i \in 1..Len(f_chart) |-> calculate_fit_score(f_measurements, f_chart[i].row)]

\* C12: the matcher returns the size whose fit score is minimal over the
\* chart, and of several sizes with the same minimal score the one earliest
\* in chart order; it returns a size whenever the vector holds the primary
\* key and some row has a finite score, as with the unisex tops and bottoms
\* charts.
C12_FirstMinimalSize ==
    f_pc = "matched" =>
        /\ f_match.some =>
             \E j \in 1..Len(f_chart) :
                 /\ f_match.val.size = f_chart[j].size
                 /\ \A i \in 1..Len(f_chart) : NotAbove(RowScores[j], RowScores[i])
                 /\ \A i \in 1..(j - 1) : ~NotAbove(RowScores[i], RowScores[j])
        /\ (f_primary \in DOMAIN f_measurements
              /\ \E i \in 1..Len(f_chart) : ~RowScores[i].inf) => f_match.some

\* C12 witness: two different rows score the same finite minimum and the
\* size of the first one is returned
C12_Witness ==
    /\ f_pc = "matched"
    /\ Len(f_chart) = 2
    /\ f_chart[1].row # f_chart[2].row
    /\ ~RowScores[1].inf
    /\ ~RowScores[2].inf
    /\ QEq(RowScores[1], RowScores[2])
    /\ f_match.some
    /\ f_match.val.size = f_chart[1].size

\* the score is a finite value of at most n hundredths
UpTo(score, n) == ~score.inf /\ QLeq(score, Q(n, 100))

\* C13: the confidence is a function of the fit score only: up to 0.05 gives
\* 0.95, up to 0.10 gives 0.90, up to 0.15 gives 0.85, up to 0.20 gives 0.80,
\* up to 0.30 gives 0.70, a larger score gives max(0.50, 1 - score); each
\* boundary value belongs to the higher-confidence band.
C13_ConfidenceBands ==
    f_pc = "converted" =>
        IF UpTo(f_score, 5) THEN QEq(f_confidence, Q(95, 100))
        ELSE IF UpTo(f_score, 10) THEN QEq(f_confidence, Q(90, 100))
        ELSE IF UpTo(f_score, 15) THEN QEq(f_confidence, Q(85, 100))
        ELSE IF UpTo(f_score, 20) THEN QEq(f_confidence, Q(80, 100))
        ELSE IF UpTo(f_score, 30) THEN QEq(f_confidence, Q(70, 100))
        ELSE IF UpTo(f_score, 50)
             THEN BigAdd(BigMul(f_confidence.num, f_score.den),
                         BigMul(f_score.num, f_confidence.den))
                    = BigMul(f_confidence.den, f_score.den)
        ELSE QEq(f_confidence, Q(50, 100))

\* C13 witness: the boundary score 0.30 was converted to 0.70
C13_Witness ==
    /\ f_pc = "converted"
    /\ ~f_score.inf
    /\ QEq(f_score, Q(30, 100))
    /\ QEq(f_confidence, Q(70, 100))

\* the plausibility window of each measurement, in tenths of a centimetre
PlausibilityWindow ==
    [height |-> <<1200, 2500>>, shoulder_width |-> <<200, 800>>,
     chest_circumference |-> <<700, 1500>>, waist_circumference |-> <<600, 1200>>,
     hip_circumference |-> <<750, 1400>>, arm_length |-> <<400, 900>>]

\* C14: every value present in the measurement set calculate_measurements
\* returns lies strictly inside its plausibility window.
C14_ValuesStrictlyInsideWindows ==
    m_pc = "returned" =>
        \A k \in DOMAIN m_result :
            /\ k \in DOMAIN PlausibilityWindow
            /\ PlausibilityWindow[k][1] < m_result[k]
            /\ m_result[k] < PlausibilityWindow[k][2]

\* the measurements were computed with a scale factor
Measured == m_pc \in {"returned", "derived"} /\ m_scale.some

\* the shoulder-to-wrist distance of the side over the scale lies in (40, 90)
ArmInWindow(side) ==
    /\ {side \o "_SHOULDER", side \o "_WRIST"} \subseteq DOMAIN m_landmarks
    /\ InWindow(ArmRaw(m_landmarks, side, m_scale.val), 40, 90)

\* arm_length is present and is the side's distance over the scale, rounded
\* to one decimal
ArmLengthOf(side) ==
    /\ "arm_length" \in DOMAIN m_result
    /\ m_result["arm_length"] = Round1(ArmRaw(m_landmarks, side, m_scale.val))

\* C15: arm_length is the left shoulder-to-wrist distance over the scale
\* whenever the left shoulder and wrist are present and that value lies in
\* (40, 90), even if the right side is valid too; the right side's value is
\* used only when the left landmarks are missing or the left value is outside
\* the window; arm_length is absent when neither side has a value in the
\* window.
C15_LeftArmFirst ==
    Measured =>
        IF ArmInWindow("LEFT") THEN ArmLengthOf("LEFT")
        ELSE IF ArmInWindow("RIGHT") THEN ArmLengthOf("RIGHT")
        ELSE "arm_length" \notin DOMAIN m_result

\* C15 witness: calculate_measurements found both arms inside the window
\* with different lengths and returned the left one
C15_Witness ==
    /\ m_pc = "returned"
    /\ m_scale.some
    /\ ArmInWindow("LEFT")
    /\ ArmInWindow("RIGHT")
    /\ Round1(ArmRaw(m_landmarks, "LEFT", m_scale.val))
         # Round1(ArmRaw(m_landmarks, "RIGHT", m_scale.val))
    /\ ArmLengthOf("LEFT")

\* C16: calculate_measurements called with an empty landmark set returns the
\* empty measurement set for every image shape, also when the image-height
\* scale candidate is accepted.
C16_EmptyLandmarksEmptySet ==
    (m_pc = "returned" /\ DOMAIN m_landmarks = {}) => DOMAIN m_result = {}

\* C16 witness: no landmarks, a scale factor taken from the image height, and
\* the empty set returned
C16_Witness ==
    /\ m_pc = "returned"
    /\ DOMAIN m_landmarks = {}
    /\ m_shape.given
    /\ m_scale.some
    /\ DOMAIN m_result = {}

\* C17: _calculate_scale_factor returns None when the NOSE landmark is
\* missing, the shoulders, the hips and the image shape being given.
C17_NoScaleWithoutNose ==
    (/\ m_pc = "returned"
     /\ "NOSE" \notin DOMAIN m_landmarks
     /\ {"LEFT_SHOULDER", "RIGHT_SHOULDER", "LEFT_HIP", "RIGHT_HIP"}
            \subseteq DOMAIN m_landmarks
     /\ m_shape.given)
        => ~m_scale.some

\* the request returned a result for this processed image and these faces
Analysed(r, processed, faces) ==
    /\ r_pc[r] = "done"
    /\ r_processed[r] = processed
    /\ r_faces[r] = faces

\* C18: two analyses of the same preprocessed image (same faces and image
\* shape) return identical measurements, size recommendations and
\* confidence, whatever uploads the same detector, calculator and predictor
\* served before or in between, failed ones included.
C18_SameImageSameResult ==
    \A r \in Requests, q \in Requests :
        Analysed(q, r_processed[r], r_faces[r]) /\ r_pc[r] = "done" =>
            /\ r_result[r].some
            /\ r_result[q].some
            /\ r_result[r].val.measurements = r_result[q].val.measurements
            /\ r_result[r].val.size_recommendations
                 = r_result[q].val.size_recommendations
            /\ r_result[r].val.confidence = r_result[q].val.confidence

\* C18 witness: two requests returned results for the same processed image
\* and face, one of them with the other's detect_landmarks in between, and
\* the results hold measurements and recommendations
C18_Witness ==
    \E r \in Requests, q \in Requests :
        /\ r # q
        /\ r_pc[r] = "done"
        /\ Analysed(q, r_processed[r], r_faces[r])
        /\ r_interleaved[r]
        /\ r_result[r] = r_result[q]
        /\ DOMAIN r_result[r].val.measurements # {}
        /\ DOMAIN r_result[r].val.size_recommendations # {}

\* the four closing remarks
ClosingRemarks ==
    {"Excellent size match - this should fit very well",
     "Good size match - should fit well",
     "Reasonable fit - consider trying on if possible",
     "Uncertain fit - recommend trying on or checking return policy"}

\* the closing remark the confidence c calls for
RemarkFor(c) ==
    IF QLess(Q(9, 10), c) THEN "Excellent size match - this should fit very well"
    ELSE IF QLess(Q(8, 10), c) THEN "Good size match - should fit well"
    ELSE IF QLess(Q(7, 10), c) THEN "Reasonable fit - consider trying on if possible"
    ELSE "Uncertain fit - recommend trying on or checking return policy"

\* C19: every fit-note list returned for a category is non-empty and ends
\* with the closing remark chosen by the match confidence c ('Excellent' if
\* c > 0.9, 'Good' if 0.8 < c <= 0.9, 'Reasonable' if 0.7 < c <= 0.8,
\* 'Uncertain' otherwise), and holds no other closing remark.
C19_OneClosingRemark ==
    s_pc = "returned" =>
        \A c \in DOMAIN s_predictions :
            LET fit_notes == s_predictions[c].fit_notes
            IN /\ Len(fit_notes) > 0
               /\ fit_notes[Len(fit_notes)].text = RemarkFor(s_predictions[c].confidence)
               /\ fit_notes[Len(fit_notes)].measurement = ""
               /\ \A i \in 1..(Len(fit_notes) - 1) :
                    fit_notes[i].text \notin ClosingRemarks

\* C19 witness: a category matched with confidence exactly 0.9 closes with
\* 'Good' after an earlier note
C19_Witness ==
    /\ s_pc = "returned"
    /\ \E c \in DOMAIN s_predictions :
         /\ QEq(s_predictions[c].confidence, Q(9, 10))
         /\ Len(s_predictions[c].fit_notes) >= 2
         /\ s_predictions[c].fit_notes[Len(s_predictions[c].fit_notes)].text
              = "Good size match - should fit well"

\* the ankles among the landmarks measured
AnklesPresent == {"LEFT_ANKLE", "RIGHT_ANKLE"} \cap DOMAIN m_landmarks

\* 1.06 times the distance from NOSE to the mean position of the ankles
\* present, over the scale: with both ankles the distance from twice the
\* nose to the sum of the ankles is twice the distance to their mean
ExpectedHeight ==
    LET nose == m_landmarks["NOSE"]
    IN IF AnklesPresent = {"LEFT_ANKLE", "RIGHT_ANKLE"}
       THEN LET left == m_landmarks["LEFT_ANKLE"]
                right == m_landmarks["RIGHT_ANKLE"]
            IN RawCm(Hypot(2 * nose.x - (left.x + right.x),
                           2 * nose.y - (left.y + right.y)),
                     106, 200, m_scale.val)
       ELSE LET ankle == m_landmarks[CHOOSE a \in AnklesPresent : TRUE]
            IN RawCm(Hypot(nose.x - ankle.x, nose.y - ankle.y),
                     106, 100, m_scale.val)

\* C20: height is 1.06 times the pixel distance from NOSE to the mean
\* position of the ankles present (both, or the single one), over the scale,
\* rounded to one decimal; it is absent when NOSE is missing, when no ankle
\* is present, or when the value is outside (120, 250).
C20_HeightFromNoseAndAnkles ==
    Measured =>
        IF /\ "NOSE" \in DOMAIN m_landmarks
           /\ AnklesPresent # {}
           /\ InWindow(ExpectedHeight, 120, 250)
        THEN /\ "height" \in DOMAIN m_result
             /\ m_result["height"] = Round1(ExpectedHeight)
        ELSE "height" \notin DOMAIN m_result

\* C20 witness: calculate_measurements returned a height measured to the
\* single ankle present
C20_Witness ==
    /\ m_pc = "returned"
    /\ m_scale.some
    /\ "NOSE" \in DOMAIN m_landmarks
    /\ AnklesPresent = {"LEFT_ANKLE"}
    /\ "height" \in DOMAIN m_result
    /\ m_result["height"] = Round1(ExpectedHeight)

\* the request has run detect_landmarks on its processed image
DetectionRan(r) ==
    r_processed[r].valid /\ r_pc[r] \notin {"start", "loaded", "preprocessed"}

\* detect_landmarks returns None for every image in which no face is found
\* and for an invalid image, whatever the cascade would have reported
NoneWithoutFaceOrImage ==
    /\ \A image \in Uploads \cup DetectImages \cup {InvalidImage} :
           detect_landmarks(image, <<>>) = None
    /\ \A faces \in SeqsUpTo(FaceBoxes(Image(480, 640)), 1) :
           detect_landmarks(InvalidImage, faces) = None

\* C21: detect_landmarks returns None, and never raises, when the cascade
\* finds no face or the input is invalid (None, an empty array);
\* process_image then ends the request with the error "No person detected in
\* image": no landmarks, no measurements, no recommendations and no result.
C21_NoFaceAbortsRequest ==
    /\ NoneWithoutFaceOrImage
    /\ \A r \in Requests :
           (DetectionRan(r) /\ r_faces[r] = <<>>) =>
               /\ r_pc[r] = "failed"
               /\ r_error[r] = "No person detected in image"
               /\ r_landmarks[r] = None
               /\ r_measurements[r] = EmptyDict
               /\ r_recommendations[r] = EmptyDict
               /\ r_result[r] = None

\* C21 witness: a request whose processed image showed no face has failed,
\* after the detector had found a face for another upload
C21_Witness ==
    \E r \in Requests :
        /\ DetectionRan(r)
        /\ r_faces[r] = <<>>
        /\ r_pc[r] = "failed"
        /\ r_error[r] = "No person detected in image"
        /\ last_confidence = EstimationConfidence

\* the confidence of every fit score converted
ConfidenceOf == [score \in ConfidenceScores |-> calculate_confidence(score)]

\* C22: for every fit score >= 0, float('inf') included, the confidence
\* _calculate_confidence returns is at least 0.5 and at most 0.95 (so inside
\* 0..1), and no larger fit score is converted to a larger confidence.
C22_ConfidenceRangeAndMonotone ==
    f_pc = "converted" =>
        /\ QLeq(Q(5, 10), f_confidence)
        /\ QLeq(f_confidence, Q(95, 100))
        /\ QLeq(Q(0, 1), f_confidence) /\ QLeq(f_confidence, Q(1, 1))
        /\ \A larger \in ConfidenceScores :
               ScoreNotGreater(f_score, larger) =>
                   QLeq(ConfidenceOf[larger], f_confidence)

\* C22 witness: float('inf') was converted to the minimum 0.5, and a finite
\* score below it is converted to the maximum 0.95
C22_Witness ==
    /\ f_pc = "converted"
    /\ f_score.inf
    /\ QEq(f_confidence, Q(5, 10))
    /\ \E smaller \in ConfidenceScores : QEq(ConfidenceOf[smaller], Q(95, 100))

\* this step is the request's detect_landmarks call
DetectionStep(r) == r_pc[r] = "preprocessed" /\ r_pc'[r] # "preprocessed"

\* C23: over the detect_landmarks calls made on one detector,
\* get_confidence_score is 0.0 until the first call that returns landmarks
\* and 0.8 ever after: a call that returns landmarks stores 0.8, a call that
\* returns None (no face, or the exception handler) leaves the stored value
\* as it was, and nothing else writes it.
C23_ConfidenceLatches ==
    /\ last_confidence = 0
    /\ \A prev \in {0, EstimationConfidence} :
           ConfidenceAfter(prev, detect_landmarks(InvalidImage, <<>>)) = prev
    /\ [][/\ \A r \in Requests :
               DetectionStep(r) =>
                   last_confidence' = IF r_landmarks'[r].some
                                      THEN EstimationConfidence
                                      ELSE last_confidence
          /\ (\A r \in Requests : ~DetectionStep(r)) =>
                 last_confidence' = last_confidence
          /\ last_confidence = EstimationConfidence =>
                 last_confidence' = EstimationConfidence
          /\ last_confidence' \in {0, EstimationConfidence}]_vars

\* C23 witness: the score is 0.8 although the most recent detection returned
\* None: a request's detect_landmarks found no face while another request,
\* which had its landmarks, was still on its way to get_confidence_score
C23_Witness ==
    \E r \in Requests, q \in Requests :
        /\ r # q
        /\ r_pc[r] = "failed"
        /\ r_error[r] = "No person detected in image"
        /\ q \in AwaitingConfidence
        /\ r_interleaved[q]
        /\ last_confidence = EstimationConfidence

\* the requests whose predict_sizes call has returned recommendations
Predicted == {r \in Requests : r_pc[r] \in {"predicted", "done"}
                               /\ DOMAIN r_recommendations[r] # {}}

\* C24: the size-chart data is read-only during analysis: after any sequence
\* of predict_sizes calls every table of the SizeCharts object (men's,
\* women's, dresses, outerwear) has the sizes, keys and values
\* _initialize_charts gave it, and the unisex chart handed out for tops and
\* for bottoms is, size by size and key by key, the average of the men's and
\* the women's value.
C24_ChartsReadOnly ==
    /\ size_charts = initialize_charts
    /\ \A i \in 1..Len(SizeLabels) :
           /\ get_tops_chart[i].size = SizeLabels[i]
           /\ get_bottoms_chart[i].size = SizeLabels[i]
           /\ DOMAIN get_tops_chart[i].row = DOMAIN size_charts.mens_tops[i]
           /\ DOMAIN get_bottoms_chart[i].row = DOMAIN size_charts.mens_bottoms[i]
           /\ \A k \in DOMAIN size_charts.mens_tops[i] :
                  2 * get_tops_chart[i].row[k]
                      = 10 * (size_charts.mens_tops[i][k]
                              + size_charts.womens_tops[i][k])
           /\ \A k \in DOMAIN size_charts.mens_bottoms[i] :
                  2 * get_bottoms_chart[i].row[k]
                      = 10 * (size_charts.mens_bottoms[i][k]
                              + size_charts.womens_bottoms[i][k])

\* C24 witness: two requests have their recommendations, tops and bottoms
\* among them, and one has returned
C24_Witness ==
    \E r \in Predicted, q \in Predicted :
        /\ r # q
        /\ r_pc[r] = "done"
        /\ {"tops", "bottoms"} \subseteq DOMAIN r_recommendations[r]
        /\ size_charts.mens_tops = mens_tops

\* C25: in every measurement set calculate_measurements returns,
\* chest_circumference comes with shoulder_width: the chest window
\* 70 < 2.38 * s < 150 keeps the shoulder width s inside 29.4 .. 63.0, a
\* sub-range of its own window (20, 80); so the measurements tops and
\* outerwear require are present exactly when the chest is.
C25_ChestImpliesShoulder ==
    m_pc \in {"returned", "derived"} =>
        /\ "chest_circumference" \in DOMAIN m_result =>
               /\ "shoulder_width" \in DOMAIN m_result
               /\ m_result["shoulder_width"] >= 294
               /\ m_result["shoulder_width"] <= 630
        /\ TopRequired \subseteq DOMAIN m_result
               <=> "chest_circumference" \in DOMAIN m_result
        /\ OuterwearRequired \subseteq DOMAIN m_result
               <=> "chest_circumference" \in DOMAIN m_result

\* C25 witness: calculate_measurements returned a chest circumference and a
\* shoulder width measured against another reference than the shoulders
C25_Witness ==
    /\ m_pc = "returned"
    /\ "chest_circumference" \in DOMAIN m_result
    /\ "shoulder_width" \in DOMAIN m_result
    /\ m_result["shoulder_width"] # 400

\* C26: whenever the shoulder scale candidate is accepted (both shoulders
\* present, 20 to 600 pixels apart) calculate_measurements returns
\* shoulder_width 40.0 and chest_circumference 95.2, whatever the landmark
\* positions and the image shape: the shoulder distance is the calibration
\* reference and the quantity measured.
C26_ShoulderScaleFixesShoulderAndChest ==
    (m_pc = "returned" /\ ShoulderAccepted(m_landmarks)) =>
        /\ {"shoulder_width", "chest_circumference"} \subseteq DOMAIN m_result
        /\ m_result["shoulder_width"] = 400
        /\ m_result["chest_circumference"] = 952

\* C26 witness: shoulders 600 pixels apart, the widest pair accepted, with
\* an accepted hip candidate and an image shape beside them
C26_Witness ==
    /\ m_pc = "returned"
    /\ ShoulderAccepted(m_landmarks)
    /\ ShoulderPixels(m_landmarks) = 600 * PX
    /\ HipAccepted(m_landmarks)
    /\ m_shape.given
    /\ m_result["shoulder_width"] = 400
    /\ m_result["chest_circumference"] = 952

\* the requests that have their recommendations and whose landmarks gave an
\* accepted shoulder scale candidate
ShoulderScaled ==
    {r \in Requests : /\ r_pc[r] \in {"predicted", "done"}
                      /\ r_landmarks[r].some
                      /\ ShoulderAccepted(r_landmarks[r].val)}

\* the match of chest 95.2 and shoulder 40.0 in the unisex tops chart
ShoulderScaledTopsMatch ==
    find_best_size_match([chest |-> 952, shoulder |-> 400], get_tops_chart, "chest")

\* C27: in process_image, whenever the shoulder scale candidate is accepted
\* the tops recommendation is the same for every image: size M of the unisex
\* tops chart with confidence 0.95, and no deviation note among its fit
\* notes.
C27_SameTopsForShoulderScale ==
    \A r \in ShoulderScaled :
        /\ "tops" \in DOMAIN r_recommendations[r]
        /\ r_recommendations[r]["tops"].size = "M"
        /\ QEq(r_recommendations[r]["tops"].confidence, Q(95, 100))
        /\ \A i \in 1..Len(r_recommendations[r]["tops"].fit_notes) :
               r_recommendations[r]["tops"].fit_notes[i].measurement = ""
        /\ ShoulderScaledTopsMatch.some
        /\ ShoulderScaledTopsMatch.val.size = "M"
        /\ ShoulderScaledTopsMatch.val.size_measurements
               = [chest |-> 940, waist |-> 760, shoulder |-> 425]

\* C27 witness: two requests analysed different images, their outerwear
\* sizes differ and their tops recommendations are the same size M
C27_Witness ==
    \E r \in ShoulderScaled, q \in ShoulderScaled :
        /\ r_processed[r] # r_processed[q]
        /\ r_recommendations[r]["outerwear"].size
               # r_recommendations[q]["outerwear"].size
        /\ r_recommendations[r]["tops"] = r_recommendations[q]["tops"]
        /\ r_recommendations[r]["tops"].size = "M"

\* the measurement set holds both circumferences taken from the hip width
WaistAndHipReturned ==
    /\ m_pc \in {"returned", "derived"}
    /\ {"waist_circumference", "hip_circumference"} \subseteq DOMAIN m_result

\* the fit notes hold the pear-shape note
HasPearNote(fit_notes) ==
    \E i \in 1..Len(fit_notes) :
        fit_notes[i].text = "Consider a pear-shaped fit for better hip accommodation"

\* C28: whenever calculate_measurements returns waist_circumference and
\* hip_circumference, hip - waist > 25 cm: both come from one hip width w,
\* waist = 1.95 * w and hip = 2.8 * w, and the windows force w > 30.7; so the
\* bottoms recommendation made from such a measurement set always holds the
\* pear-shape fit note.
C28_HipExceedsWaist ==
    WaistAndHipReturned =>
        /\ m_result["hip_circumference"] - m_result["waist_circumference"] > 250
        /\ predict_bottom_size(m_result).some
        /\ HasPearNote(predict_bottom_size(m_result).val.fit_notes)

\* C28 witness: a hip width of 33.3 cm, not far above the 30.77 cm the waist
\* window asks for: waist 65.0, hip 93.3
C28_Witness ==
    /\ WaistAndHipReturned
    /\ m_pc = "returned"
    /\ m_result["waist_circumference"] = 650
    /\ m_result["hip_circumference"] = 933
    /\ HasPearNote(predict_bottom_size(m_result).val.fit_notes)

\* C29: every landmark set detect_landmarks returns passes validate_pose:
\* both shoulders and both hips are present and the two shoulders have the
\* same y coordinate, clamped or not, so the pose check, which process_image
\* never calls, rejects no estimated pose.
C29_EstimatedPoseAlwaysValid ==
    (d_pc = "returned" /\ d_result.some) =>
        /\ RequiredLandmarks \subseteq DOMAIN d_result.val
        /\ d_result.val["LEFT_SHOULDER"].y = d_result.val["RIGHT_SHOULDER"].y
        /\ validate_pose(d_result.val)

\* C29 witness: the shoulder line was clamped to the last row of the image
\* and both shoulders to one column, so that they coincide
C29_Witness ==
    /\ d_pc = "returned"
    /\ d_result.some
    /\ EstimateLandmarks(LargestFace(d_faces))["LEFT_SHOULDER"].y
           > d_result.val["LEFT_SHOULDER"].y
    /\ d_result.val["LEFT_SHOULDER"].y = (d_image.height - 1) * PX
    /\ d_result.val["LEFT_SHOULDER"] = d_result.val["RIGHT_SHOULDER"]
    /\ validate_pose(d_result.val)

\* the request has a scale factor or the lack of one from calculate_measurements
Calibrated(r) == r_pc[r] \in {"measured", "predicted", "done"}

\* the processed image of the request is its upload resized
Resized(r) == r_processed[r].valid /\ r_processed[r] = resize_image(r_image[r])

\* landmark sets whose shoulder and hip candidates are both missing (no
\* landmark at all) or both rejected
UncalibratedLandmarks ==
    {l \in {sh @@ hp : sh \in ShoulderParts, hp \in HipParts} :
        /\ Cardinality(DOMAIN l) \in {0, 4}
        /\ ~ShoulderAccepted(l) /\ ~HipAccepted(l)}

\* for every height from 100 to 639 pixels the image-height candidate is
\* accepted, and _calculate_scale_factor returns a positive scale where the
\* shoulder and hip candidates are of no use
EveryResizedHeightCalibrates ==
    \A h \in 100..639 :
        /\ ImageHeightAccepted(Shape(h))
        /\ \A l \in UncalibratedLandmarks :
               LET scale == calculate_scale_factor(l, Shape(h))
               IN scale.some /\ scale.val.n > 0

====
